---- MODULE Spec2Model ----
(***************************************************************************)
(* hyprwhspr: the dictation controller (lib/main.py, HyprWhsprApp), the   *)
(* audio recorder (lib/src/audio_capture.py, AudioCapture), the hotkey     *)
(* watcher (lib/src/global_shortcuts.py, GlobalShortcuts), the             *)
(* transcription adapter (lib/src/whisper_manager.py, WhisperManager) and  *)
(* the text injector with its normalizer (lib/src/text_injector.py,        *)
(* TextInjector).                                                          *)
(*                                                                         *)
(* Every trigger callback runs on a thread of its own                      *)
(* (global_shortcuts.py, _trigger_callback); the controller's flags are    *)
(* plain attributes read and written without a lock, so each read and each *)
(* write of a shared attribute is one step of the thread that makes it.    *)
(* A "with self.lock" block of the recorder is one step.                   *)
(***************************************************************************)
EXTENDS Integers, Sequences, FiniteSets, TLC

(* Bounds of the model. *)
MaxCapture == 2       \* the recorder alone: capture threads alive together
MaxBlocks == 2        \* the recorder alone: blocks held in the buffer
DaemonCapture == 1    \* the daemon: capture threads alive together
DaemonBlocks == 1     \* the daemon: blocks held in the buffer
BlockLen == 2         \* samples per delivered block (chunk_size, scaled down)

Handlers == {1, 2}                \* trigger-callback threads alive together
Client == Cardinality(Handlers) + 1   \* a direct caller of the recorder's API
Threads == {Client} \cup Handlers
CaptureSlots == 1..MaxCapture
SampleVals == {1, 2}              \* the recorder alone: what a block holds
DaemonVals == {1}                 \* the daemon: what a block holds
None == <<"None">>                \* Python's None
NoThread == 0                     \* record_thread: None, or a thread never started
WS == {" ", "\t", "\n", "\r"}     \* whitespace characters
BackendTexts == {<<>>, <<" ">>, <<"a">>, <<" ", "b", " ">>}

(* Bounds of the watcher's model. *)
MaxDevices == 2       \* keyboard devices
MaxTime == 6          \* the clock stops here

debounce_time == 2    \* 0.5 s, in ticks of 250 ms
StartTime == debounce_time + 1    \* time.time() when the watcher is built
DeviceIds == 1..MaxDevices
ListenerSlots == {1, 2}           \* listener threads alive together
KeyCodes == {"KEY_A", "KEY_B", "KEY_F12"}
NoKey == "None"                   \* _string_to_keycode's None
KeySpecs == {<<"a", "b">>, <<"B">>, <<"x">>}   \* key strings, split at "+"

VARIABLES
  is_recording,          \* HyprWhsprApp.is_recording
  is_processing,         \* HyprWhsprApp.is_processing
  current_transcription, \* HyprWhsprApp.current_transcription
  pc,                    \* where each thread is
  log,                   \* what each callback thread did so far, in order
  audio,                 \* each thread's local audio_data (stop_recording's result)
  ac_is_recording,       \* AudioCapture.is_recording
  audio_data,            \* AudioCapture.audio_data: the list of chunks
  record_thread,         \* AudioCapture.record_thread
  cap,                   \* each capture thread's position
  armed,                 \* history: start_recording armed the recorder and no
                         \* stop_recording has flipped the flag since
  delivered              \* history: the blocks the streams delivered while armed

(* GlobalShortcuts, the hotkey watcher *)
VARIABLES
  pressed_keys,          \* GlobalShortcuts.pressed_keys
  last_trigger_time,     \* GlobalShortcuts.last_trigger_time
  primary_key,           \* GlobalShortcuts.primary_key
  target_keys,           \* GlobalShortcuts.target_keys
  devices,               \* GlobalShortcuts.devices
  device_fds,            \* GlobalShortcuts.device_fds: the devices whose fd is open
  is_running,            \* GlobalShortcuts.is_running
  stop_event,            \* GlobalShortcuts.stop_event
  listener_thread,       \* GlobalShortcuts.listener_thread
  lst,                   \* each listener thread's position
  gs_pc,                 \* where the caller of the watcher's API is
  now                    \* time.time(), in ticks

(* WhisperManager.transcribe_audio, one call *)
VARIABLES
  wm_ready,              \* WhisperManager.ready
  wm_pc,                 \* where the call of transcribe_audio is
  wm_audio,              \* its argument audio_data: None, or an array of n samples
  wm_files,              \* the files of the call that exist: "wav", "txt"
  wm_made,               \* history: the files the call created
  wm_backend,            \* history: how the whisper.cpp process ended
  wm_transcription,      \* the local transcription (_run_whisper's result)
  wm_result              \* what transcribe_audio returned, or Raised

(* TextInjector, one call of _preprocess_text or of inject_text *)
VARIABLES
  text,                  \* the argument text
  word_overrides,        \* config: word_overrides, in the dict's order
  normalized,            \* _preprocess_text(text)
  renormalized,          \* _preprocess_text(_preprocess_text(text))
  ydotool_available,     \* TextInjector.ydotool_available
  clipboard_behavior,    \* config: clipboard_behavior
  inj_pc,                \* where the call of inject_text is
  processed_text,        \* inject_text's local processed_text
  clipboard,             \* what the call put on the clipboard, None before
  keystrokes,            \* the paste chords ydotool was asked to press
  clear_threads,         \* the clipboard-clearing threads started and still asleep
  inj_result             \* what inject_text returned: "True", "False"

(* HyprWhsprApp.run and _cleanup, on the main thread (the thread Client) *)
VARIABLES
  global_shortcuts       \* HyprWhsprApp.global_shortcuts is not None

ctlVars == <<is_recording, is_processing, current_transcription>>
thrVars == <<pc, log, audio>>
acVars == <<ac_is_recording, audio_data, record_thread, cap, armed, delivered>>
gsVars == <<pressed_keys, last_trigger_time, primary_key, target_keys, devices,
            device_fds, is_running, stop_event, listener_thread, lst, gs_pc, now>>
wmVars == <<wm_ready, wm_pc, wm_audio, wm_files, wm_made, wm_backend,
            wm_transcription, wm_result>>
tiVars == <<text, word_overrides, normalized, renormalized, ydotool_available,
            clipboard_behavior, inj_pc, processed_text, clipboard, keystrokes,
            clear_threads, inj_result>>
ioVars == <<wmVars, tiVars, global_shortcuts>>
vars == <<is_recording, is_processing, current_transcription, pc, log, audio,
          ac_is_recording, audio_data, record_thread, cap, armed, delivered,
          pressed_keys, last_trigger_time, primary_key, target_keys, devices,
          device_fds, is_running, stop_event, listener_thread, lst, gs_pc, now,
          wm_ready, wm_pc, wm_audio, wm_files, wm_made, wm_backend,
          wm_transcription, wm_result,
          text, word_overrides, normalized, renormalized, ydotool_available,
          clipboard_behavior, inj_pc, processed_text, clipboard, keystrokes,
          clear_threads, inj_result, global_shortcuts>>

----------------------------------------------------------------------------
(* Pure helpers. *)

RECURSIVE LStrip(_)
LStrip(s) == IF s # <<>> /\ Head(s) \in WS THEN LStrip(Tail(s)) ELSE s

RECURSIVE RStrip(_)
RStrip(s) ==
  IF s # <<>> /\ s[Len(s)] \in WS THEN RStrip(SubSeq(s, 1, Len(s) - 1)) ELSE s

(* str.strip() *)
Strip(s) == RStrip(LStrip(s))

(* indata[:, 0].copy(): one delivered block of BlockLen samples *)
Chunk(v) == [i \in 1..BlockLen |-> v]

(* np.concatenate(chunks, axis=0) *)
RECURSIVE Concatenate(_)
Concatenate(chunks) ==
  IF chunks = <<>> THEN <<>> ELSE Head(chunks) \o Concatenate(Tail(chunks))

IsPrefix(s, q) == Len(s) <= Len(q) /\ s = SubSeq(q, 1, Len(s))
InLog(t, what) == \E i \in 1..Len(log[t]) : log[t][i] = what

Goto(t, where) == pc' = [pc EXCEPT ![t] = where]
Logged(t, what) == log' = [log EXCEPT ![t] = log[t] \o what]

----------------------------------------------------------------------------
(* GlobalShortcuts: parsing of the key string. *)

(* str.lower() of one part of the key string *)
Lower(part) == IF part = "A" THEN "a" ELSE IF part = "B" THEN "b" ELSE part

(* _string_to_keycode *)
StringToKeycode(key_string) ==
  IF Lower(key_string) = "f12" THEN "KEY_F12"
  ELSE IF Lower(key_string) = "a" THEN "KEY_A"
  ELSE IF Lower(key_string) = "b" THEN "KEY_B"
  ELSE NoKey

(* _parse_key_combination: the keycodes of the parts that parse, or F12 *)
ParseKeyCombination(key_string) ==
  LET keys == {StringToKeycode(key_string[i]) : i \in 1..Len(key_string)} \ {NoKey}
  IN IF keys = {} THEN {"KEY_F12"} ELSE keys

(* GlobalShortcuts.__init__, with _discover_keyboards finding found *)
GsInit(found) ==
  /\ pressed_keys = {}
  /\ last_trigger_time = 0
  /\ primary_key = <<"a", "b">>
  /\ target_keys = ParseKeyCombination(<<"a", "b">>)
  /\ devices = found
  /\ device_fds = found
  /\ is_running = FALSE
  /\ stop_event = FALSE
  /\ listener_thread = NoThread
  /\ lst = [s \in ListenerSlots |-> "none"]
  /\ gs_pc = "idle"
  /\ now = StartTime

(* WhisperManager.__init__ and initialize(), before a call with buf *)
WmInit(ready, buf) ==
  /\ wm_ready = ready
  /\ wm_pc = "idle"
  /\ wm_audio = buf
  /\ wm_files = {}
  /\ wm_made = {}
  /\ wm_backend = "not_run"
  /\ wm_transcription = None
  /\ wm_result = None

(* TextInjector.__init__ and the configuration, before a call with t *)
TiInit(t, overrides, ydotool, behavior) ==
  /\ text = t
  /\ word_overrides = overrides
  /\ normalized = None
  /\ renormalized = None
  /\ ydotool_available = ydotool
  /\ clipboard_behavior = behavior
  /\ inj_pc = "idle"
  /\ processed_text = None
  /\ clipboard = None
  /\ keystrokes = 0
  /\ clear_threads = 0
  /\ inj_result = "none"

(* the daemon with no transcription and no injection under way *)
IoInit ==
  /\ WmInit(TRUE, None)
  /\ TiInit(<<>>, <<>>, TRUE, FALSE)
  /\ global_shortcuts = TRUE

----------------------------------------------------------------------------
Init ==
  /\ is_recording = FALSE
  /\ is_processing = FALSE
  /\ current_transcription = <<>>
  /\ pc = [t \in Threads |-> "off"]
  /\ log = [t \in Threads |-> <<>>]
  /\ audio = [t \in Threads |-> None]
  /\ ac_is_recording = FALSE
  /\ audio_data = <<>>
  /\ record_thread = NoThread
  /\ cap = [s \in CaptureSlots |-> "none"]
  /\ armed = FALSE
  /\ delivered = <<>>
  /\ GsInit(DeviceIds)
  /\ IoInit

----------------------------------------------------------------------------
(* Where a call of the recorder returns to: the controller's handler, or   *)
(* the direct caller.                                                      *)

AfterStartReturned(t) == IF t = Client THEN "started" ELSE "done"
AfterStartAlready(t) == IF t = Client THEN "already" ELSE "done"
AfterStartFailed(t) == IF t = Client THEN "ready" ELSE "done"
AfterStartRaised(t) == IF t = Client THEN "raised" ELSE "start_except"
AfterStopNothing(t) == IF t = Client THEN "ready" ELSE "stop_tone"
AfterStopReturned(t) == IF t = Client THEN "stopped" ELSE "stop_tone"

----------------------------------------------------------------------------
(* AudioCapture.start_recording, called by thread t. *)

(* A variant of AcStartCheck without the "already recording" test. *)
AcStartCheck_NoTest(t) ==
  /\ pc[t] = "ac_start_chk"
  /\ \/ Goto(t, AfterStartRaised(t))
     \/ Goto(t, "ac_start_arm")
  /\ UNCHANGED <<ctlVars, acVars, log, audio>>
  /\ UNCHANGED <<gsVars, ioVars>>

(* is_available(), then the "already recording" test *)
AcStartCheck(t) ==
  /\ pc[t] = "ac_start_chk"
  /\ \/ Goto(t, AfterStartRaised(t))         \* sd.query_devices() failed
     \/ IF ac_is_recording
          THEN Goto(t, AfterStartAlready(t))
          ELSE Goto(t, "ac_start_arm")
  /\ UNCHANGED <<ctlVars, acVars, log, audio>>
  /\ UNCHANGED <<gsVars, ioVars>>

(* A variant of AcStartArm that keeps the chunks of the recording before. *)
AcStartArm_NoClear(t) ==
  /\ pc[t] = "ac_start_arm"
  /\ ac_is_recording' = TRUE
  /\ armed' = TRUE
  /\ delivered' = <<>>
  /\ Goto(t, "ac_start_spawn")
  /\ UNCHANGED <<ctlVars, log, audio, audio_data, record_thread, cap>>
  /\ UNCHANGED <<gsVars, ioVars>>

(* with self.lock: audio_data = []; is_recording = True *)
AcStartArm(t) ==
  /\ pc[t] = "ac_start_arm"
  /\ audio_data' = <<>>
  /\ ac_is_recording' = TRUE
  /\ armed' = TRUE
  /\ delivered' = <<>>
  /\ Goto(t, "ac_start_spawn")
  /\ UNCHANGED <<ctlVars, log, audio, record_thread, cap>>
  /\ UNCHANGED <<gsVars, ioVars>>

(* self.record_thread = threading.Thread(...); self.record_thread.start(); *)
(* or start() raises: the thread object was never started, and             *)
(* except Exception: self.is_recording = False; return False               *)
AcStartSpawn(t, slots) ==
  /\ pc[t] = "ac_start_spawn"
  /\ \/ /\ \E s \in slots :
             /\ cap[s] = "none"
             /\ \A r \in slots : cap[r] = "none" => s <= r
             /\ cap' = [cap EXCEPT ![s] = "starting"]
             /\ record_thread' = s
        /\ UNCHANGED <<ac_is_recording, armed>>
        /\ Goto(t, AfterStartReturned(t))
     \/ /\ ac_is_recording' = FALSE
        /\ armed' = FALSE
        /\ record_thread' = NoThread
        /\ UNCHANGED cap
        /\ Goto(t, AfterStartFailed(t))
  /\ UNCHANGED <<ctlVars, log, audio, audio_data, delivered>>
  /\ UNCHANGED <<gsVars, ioVars>>

----------------------------------------------------------------------------
(* AudioCapture.stop_recording, called by thread t. *)

(* A variant of AcStopCheck that empties the buffer when not recording. *)
AcStopCheck_Clears(t) ==
  /\ pc[t] = "ac_stop_chk"
  /\ IF ~ac_is_recording
       THEN /\ Goto(t, AfterStopNothing(t))
            /\ audio' = [audio EXCEPT ![t] = None]
            /\ audio_data' = <<>>
       ELSE /\ Goto(t, "ac_stop_flip")
            /\ UNCHANGED <<audio, audio_data>>
  /\ UNCHANGED <<ctlVars, ac_is_recording, record_thread, cap, armed, delivered,
                 log>>
  /\ UNCHANGED <<gsVars, ioVars>>

(* if not self.is_recording: return None *)
AcStopCheck(t) ==
  /\ pc[t] = "ac_stop_chk"
  /\ IF ~ac_is_recording
       THEN /\ Goto(t, AfterStopNothing(t))
            /\ audio' = [audio EXCEPT ![t] = None]
       ELSE /\ Goto(t, "ac_stop_flip")
            /\ UNCHANGED audio
  /\ UNCHANGED <<ctlVars, acVars, log>>
  /\ UNCHANGED <<gsVars, ioVars>>

(* with self.lock: is_recording = False *)
AcStopFlip(t) ==
  /\ pc[t] = "ac_stop_flip"
  /\ ac_is_recording' = FALSE
  /\ armed' = FALSE
  /\ Goto(t, "ac_stop_join")
  /\ UNCHANGED <<ctlVars, log, audio, audio_data, record_thread, cap, delivered>>
  /\ UNCHANGED <<gsVars, ioVars>>

(* self.record_thread and self.record_thread.is_alive() *)
RecordThreadAlive ==
  IF record_thread = NoThread THEN FALSE ELSE cap[record_thread] # "none"

(* record_thread.join(timeout=2.0): the thread has finished, or the wait   *)
(* ends with the thread still alive; then _cleanup_stream(), which finds   *)
(* self.stream = None                                                      *)
AcStopJoin(t) ==
  /\ pc[t] = "ac_stop_join"
  /\ \/ /\ ~RecordThreadAlive
        /\ Goto(t, "ac_stop_read")
     \/ /\ RecordThreadAlive
        /\ Goto(t, "ac_stop_read")             \* the join timed out
  /\ UNCHANGED <<ctlVars, acVars, log, audio>>
  /\ UNCHANGED <<gsVars, ioVars>>

(* with self.lock: concatenate the chunks, or None when there are none *)
AcStopRead(t) ==
  /\ pc[t] = "ac_stop_read"
  /\ audio' = [audio EXCEPT ![t] =
                 IF audio_data # <<>> THEN Concatenate(audio_data) ELSE None]
  /\ Goto(t, AfterStopReturned(t))
  /\ UNCHANGED <<ctlVars, acVars, log>>
  /\ UNCHANGED <<gsVars, ioVars>>

----------------------------------------------------------------------------
(* AudioCapture._record_audio: the capture thread in slot s. *)

(* sd.InputStream(...) opens, or raises and the thread finishes *)
CaptureOpen(s) ==
  /\ cap[s] = "starting"
  /\ \/ cap' = [cap EXCEPT ![s] = "streaming"]
     \/ cap' = [cap EXCEPT ![s] = "none"]
  /\ UNCHANGED <<ctlVars, thrVars, ac_is_recording, audio_data, record_thread,
                 armed, delivered>>
  /\ UNCHANGED <<gsVars, ioVars>>

(* while self.is_recording: sleep(0.1); leaving the loop closes the stream *)
CaptureLoop(s) ==
  /\ cap[s] = "streaming"
  /\ ~ac_is_recording
  /\ cap' = [cap EXCEPT ![s] = "none"]
  /\ UNCHANGED <<ctlVars, thrVars, ac_is_recording, audio_data, record_thread,
                 armed, delivered>>
  /\ UNCHANGED <<gsVars, ioVars>>

(* A variant of AudioCallback that appends without testing is_recording. *)
AudioCallback_NoFlagCheck(s, v) ==
  /\ cap[s] = "streaming"
  /\ audio_data' = Append(audio_data, Chunk(v))
  /\ delivered' = IF armed THEN Append(delivered, Chunk(v)) ELSE delivered
  /\ UNCHANGED <<ctlVars, thrVars, ac_is_recording, record_thread, cap, armed>>
  /\ UNCHANGED <<gsVars, ioVars>>

(* audio_callback of the stream of slot s, with a block holding v: with    *)
(* self.lock: if self.is_recording: self.audio_data.append(chunk.copy())   *)
AudioCallback(s, v) ==
  /\ cap[s] = "streaming"
  /\ audio_data' = IF ac_is_recording
                     THEN Append(audio_data, Chunk(v)) ELSE audio_data
  /\ delivered' = IF armed THEN Append(delivered, Chunk(v)) ELSE delivered
  /\ UNCHANGED <<ctlVars, thrVars, ac_is_recording, record_thread, cap, armed>>
  /\ UNCHANGED <<gsVars, ioVars>>

----------------------------------------------------------------------------
(* HyprWhsprApp: one trigger callback, on the thread in slot t. *)

(* The controller's state when the callback reads it, for the log. *)
Seen ==
  IF is_recording
    THEN (IF is_processing THEN "Recording+Processing" ELSE "Recording")
    ELSE (IF is_processing THEN "Processing" ELSE "Idle")

(* A variant of Trigger that waits until no callback is running. *)
Trigger_WhenNoCallback(t) ==
  /\ \A u \in Handlers : pc[u] = "off"
  /\ pc[t] = "off"
  /\ \A u \in Handlers : pc[u] = "off" => t <= u
  /\ Goto(t, "on_shortcut")
  /\ UNCHANGED <<ctlVars, acVars, log, audio>>
  /\ UNCHANGED ioVars

(* GlobalShortcuts._trigger_callback: a new thread runs the callback *)
Trigger(t) ==
  /\ pc[t] = "off"
  /\ \A u \in Handlers : pc[u] = "off" => t <= u
  /\ Goto(t, "on_shortcut")
  /\ UNCHANGED <<ctlVars, acVars, log, audio>>
  /\ UNCHANGED ioVars

(* _on_shortcut_triggered: if self.is_recording: stop, else: start *)
OnShortcutTriggered(t) ==
  /\ pc[t] = "on_shortcut"
  /\ Logged(t, <<Seen>>)
  /\ Goto(t, IF is_recording THEN "stop_chk" ELSE "start_chk")
  /\ UNCHANGED <<ctlVars, acVars, audio>>
  /\ UNCHANGED <<gsVars, ioVars>>

(* _start_recording: if self.is_recording: return *)
StartCheck(t) ==
  /\ pc[t] = "start_chk"
  /\ Goto(t, IF is_recording THEN "done" ELSE "start_set")
  /\ UNCHANGED <<ctlVars, acVars, log, audio>>
  /\ UNCHANGED <<gsVars, ioVars>>

(* A variant of StartSet that leaves the flag as it is. *)
StartSet_NoFlag(t) ==
  /\ pc[t] = "start_set"
  /\ Logged(t, <<"rec_on">>)
  /\ Goto(t, "start_tone")
  /\ UNCHANGED <<ctlVars, acVars, audio>>
  /\ UNCHANGED <<gsVars, ioVars>>

(* self.is_recording = True *)
StartSet(t) ==
  /\ pc[t] = "start_set"
  /\ is_recording' = TRUE
  /\ Logged(t, <<"rec_on">>)
  /\ Goto(t, "start_tone")
  /\ UNCHANGED <<is_processing, current_transcription, acVars, audio>>
  /\ UNCHANGED <<gsVars, ioVars>>

(* play_start_sound(), then the call of audio_capture.start_recording() *)
StartTone(t) ==
  /\ pc[t] = "start_tone"
  /\ Logged(t, <<"start_tone", "recorder_start">>)
  /\ Goto(t, "ac_start_chk")
  /\ UNCHANGED <<ctlVars, acVars, audio>>
  /\ UNCHANGED <<gsVars, ioVars>>

(* except Exception: self.is_recording = False *)
StartExcept(t) ==
  /\ pc[t] = "start_except"
  /\ is_recording' = FALSE
  /\ Logged(t, <<"start_failed">>)
  /\ Goto(t, "done")
  /\ UNCHANGED <<is_processing, current_transcription, acVars, audio>>
  /\ UNCHANGED <<gsVars, ioVars>>

(* _stop_recording: if not self.is_recording: return *)
StopCheck(t) ==
  /\ pc[t] = "stop_chk"
  /\ Goto(t, IF ~is_recording THEN "done" ELSE "stop_set")
  /\ UNCHANGED <<ctlVars, acVars, log, audio>>
  /\ UNCHANGED <<gsVars, ioVars>>

(* A variant of StopSet that plays the stop tone before it stops the       *)
(* recorder.                                                               *)
StopSet_ToneFirst(t) ==
  /\ pc[t] = "stop_set"
  /\ is_recording' = FALSE
  /\ Logged(t, <<"rec_off", "stop_tone", "recorder_stop">>)
  /\ Goto(t, "ac_stop_chk")
  /\ UNCHANGED <<is_processing, current_transcription, acVars, audio>>
  /\ UNCHANGED <<gsVars, ioVars>>

(* self.is_recording = False, then the call of audio_capture.stop_recording() *)
StopSet(t) ==
  /\ pc[t] = "stop_set"
  /\ is_recording' = FALSE
  /\ Logged(t, <<"rec_off", "recorder_stop">>)
  /\ Goto(t, "ac_stop_chk")
  /\ UNCHANGED <<is_processing, current_transcription, acVars, audio>>
  /\ UNCHANGED <<gsVars, ioVars>>

(* play_stop_sound(); if audio_data is not None: self._process_audio(...) *)
StopTone(t) ==
  /\ pc[t] = "stop_tone"
  /\ Logged(t, <<"stop_tone">>)
  /\ Goto(t, IF audio[t] # None THEN "proc_chk" ELSE "done")
  /\ UNCHANGED <<ctlVars, acVars, audio>>
  /\ UNCHANGED <<gsVars, ioVars>>

(* _process_audio: if self.is_processing: return *)
ProcCheck(t) ==
  /\ pc[t] = "proc_chk"
  /\ Goto(t, IF is_processing THEN "done" ELSE "proc_set")
  /\ UNCHANGED <<ctlVars, acVars, log, audio>>
  /\ UNCHANGED <<gsVars, ioVars>>

(* self.is_processing = True, then the call of transcribe_audio(audio_data) *)
ProcSet(t) ==
  /\ pc[t] = "proc_set"
  /\ is_processing' = TRUE
  /\ Logged(t, <<"transcribe">>)
  /\ Goto(t, "transcribing")
  /\ UNCHANGED <<is_recording, current_transcription, acVars, audio>>
  /\ UNCHANGED <<gsVars, ioVars>>

(* if transcription and transcription.strip(): a text that is not blank   *)
(* is kept in self.current_transcription and injected                      *)
AfterTranscribe(t, transcription) ==
  /\ Logged(t, <<"transcribed">>)
  /\ IF transcription # <<>> /\ Strip(transcription) # <<>>
       THEN /\ current_transcription' = Strip(transcription)
            /\ Goto(t, "inject")
       ELSE /\ UNCHANGED current_transcription
            /\ Goto(t, "proc_finally")

(* except Exception in _process_audio *)
TranscribeRaised(t) ==
  /\ Logged(t, <<"raised">>)
  /\ UNCHANGED current_transcription
  /\ Goto(t, "proc_finally")

(* transcribe_audio returns the backend's text, stripped, or raises *)
TranscribeReturn(t) ==
  /\ pc[t] = "transcribing"
  /\ \/ \E out \in BackendTexts : AfterTranscribe(t, Strip(out))
     \/ TranscribeRaised(t)
  /\ UNCHANGED <<is_recording, is_processing, acVars, audio>>
  /\ UNCHANGED <<gsVars, ioVars>>

(* _inject_text(self.current_transcription): inject_text returns, or       *)
(* raises and _inject_text catches it                                      *)
InjectText(t) ==
  /\ pc[t] = "inject"
  /\ \/ Logged(t, <<"inject">>)
     \/ Logged(t, <<"inject", "raised">>)
  /\ Goto(t, "proc_finally")
  /\ UNCHANGED <<ctlVars, acVars, audio>>
  /\ UNCHANGED <<gsVars, ioVars>>

(* A variant of ProcFinally that clears the flag on the normal path only.  *)
ProcFinally_OnlyOnSuccess(t) ==
  /\ pc[t] = "proc_finally"
  /\ is_processing' = (is_processing /\ InLog(t, "raised"))
  /\ Logged(t, <<"proc_off">>)
  /\ Goto(t, "done")
  /\ UNCHANGED <<is_recording, current_transcription, acVars, audio>>
  /\ UNCHANGED <<gsVars, ioVars>>

(* finally: self.is_processing = False *)
ProcFinally(t) ==
  /\ pc[t] = "proc_finally"
  /\ is_processing' = FALSE
  /\ Logged(t, <<"proc_off">>)
  /\ Goto(t, "done")
  /\ UNCHANGED <<is_recording, current_transcription, acVars, audio>>
  /\ UNCHANGED <<gsVars, ioVars>>

(* the callback returns and its thread ends *)
ThreadExit(t) ==
  /\ pc[t] = "done"
  /\ pc' = [pc EXCEPT ![t] = "off"]
  /\ log' = [log EXCEPT ![t] = <<>>]
  /\ audio' = [audio EXCEPT ![t] = None]
  /\ UNCHANGED <<ctlVars, acVars>>
  /\ UNCHANGED <<gsVars, ioVars>>

----------------------------------------------------------------------------
(* The daemon: triggers handled on concurrent threads. *)

(* A stream delivers a block while the buffer holds fewer than blocks.     *)
Deliver(s, v, blocks) ==
  /\ Len(audio_data) < blocks
  /\ AudioCallback(s, v)

(* The capture threads and their streams, with blocks drawn from vals.     *)
Capture(vals, blocks) ==
  \/ \E s \in CaptureSlots : CaptureOpen(s)
  \/ \E s \in CaptureSlots : CaptureLoop(s)
  \/ \E s \in CaptureSlots, v \in vals : Deliver(s, v, blocks)

(* The recorder's API as thread t calls it, with capture threads in slots. *)
Recorder(t, slots) ==
  \/ AcStartCheck(t)
  \/ AcStartArm(t)
  \/ AcStartSpawn(t, slots)
  \/ AcStopCheck(t)
  \/ AcStopFlip(t)
  \/ AcStopJoin(t)
  \/ AcStopRead(t)

(* A trigger of the watcher, as the daemon sees it. *)
TriggerFired(t) ==
  /\ Trigger(t)
  /\ UNCHANGED gsVars

Handler(t) ==
  \/ TriggerFired(t)
  \/ OnShortcutTriggered(t)
  \/ StartCheck(t)
  \/ StartSet(t)
  \/ StartTone(t)
  \/ StartExcept(t)
  \/ StopCheck(t)
  \/ StopSet(t)
  \/ StopTone(t)
  \/ ProcCheck(t)
  \/ ProcSet(t)
  \/ TranscribeReturn(t)
  \/ InjectText(t)
  \/ ProcFinally(t)
  \/ ThreadExit(t)

Next ==
  \/ \E t \in Handlers : Handler(t)
  \/ \E t \in Handlers : Recorder(t, 1..DaemonCapture)
  \/ Capture(DaemonVals, DaemonBlocks)

Spec == Init /\ [][Next]_vars

----------------------------------------------------------------------------
(* The recorder alone: one caller makes its calls one after the other,     *)
(* while the capture threads and the streams' callbacks run.               *)

InitRec ==
  /\ is_recording = FALSE
  /\ is_processing = FALSE
  /\ current_transcription = <<>>
  /\ pc = [t \in Threads |-> IF t = Client THEN "ready" ELSE "off"]
  /\ log = [t \in Threads |-> <<>>]
  /\ audio = [t \in Threads |-> None]
  /\ ac_is_recording = FALSE
  /\ audio_data = <<>>
  /\ record_thread = NoThread
  /\ cap = [s \in CaptureSlots |-> "none"]
  /\ armed = FALSE
  /\ delivered = <<>>
  /\ GsInit(DeviceIds)
  /\ IoInit

ClientCall ==
  /\ pc[Client] \in {"ready", "started", "already", "raised", "stopped"}
  /\ \/ Goto(Client, "ac_start_chk")
     \/ Goto(Client, "ac_stop_chk")
  /\ UNCHANGED <<ctlVars, acVars, log, audio>>
  /\ UNCHANGED <<gsVars, ioVars>>

NextRec ==
  \/ ClientCall
  \/ Recorder(Client, CaptureSlots)
  \/ Capture(SampleVals, MaxBlocks)

SpecRec == InitRec /\ [][NextRec]_vars

----------------------------------------------------------------------------
(* GlobalShortcuts: the listener threads. An event of device d is read and *)
(* processed in one step, by whichever listener thread is alive.           *)

SomeListenerAlive == \E s \in ListenerSlots : lst[s] = "alive"

oldVars == <<is_recording, is_processing, current_transcription, pc, log, audio,
             ac_is_recording, audio_data, record_thread, cap, armed, delivered>>

(* A variant of CheckShortcutCombination that fires again inside the       *)
(* debounce window.                                                        *)
CheckShortcutCombination_NoDebounce(keys) ==
  IF target_keys \subseteq keys
    THEN /\ last_trigger_time' = now
         /\ \E t \in Handlers : Trigger(t)
    ELSE /\ UNCHANGED last_trigger_time
         /\ UNCHANGED <<oldVars, ioVars>>

(* _check_shortcut_combination with the pressed keys keys, then            *)
(* _trigger_callback: a new thread for the callback                        *)
CheckShortcutCombination(keys) ==
  IF target_keys \subseteq keys /\ now - last_trigger_time > debounce_time
    THEN /\ last_trigger_time' = now
         /\ \E t \in Handlers : Trigger(t)
    ELSE /\ UNCHANGED last_trigger_time
         /\ UNCHANGED <<oldVars, ioVars>>

(* _process_event, key down: pressed_keys.add(code), then the chord check *)
KeyDown(d, k) ==
  /\ SomeListenerAlive
  /\ d \in devices /\ d \in device_fds
  /\ pressed_keys' = pressed_keys \cup {k}
  /\ CheckShortcutCombination(pressed_keys \cup {k})
  /\ UNCHANGED <<primary_key, target_keys, devices, device_fds, is_running,
                 stop_event, listener_thread, lst, gs_pc, now>>

(* _process_event, key up: pressed_keys.discard(code) *)
KeyUp(d, k) ==
  /\ SomeListenerAlive
  /\ d \in devices /\ d \in device_fds
  /\ pressed_keys' = pressed_keys \ {k}
  /\ UNCHANGED <<last_trigger_time, primary_key, target_keys, devices,
                 device_fds, is_running, stop_event, listener_thread, lst,
                 gs_pc, now>>
  /\ UNCHANGED <<oldVars, ioVars>>

(* A variant of DeviceError in which the error ends the event loop. *)
DeviceError_EndsLoop(d) ==
  /\ SomeListenerAlive
  /\ d \in devices /\ d \in device_fds
  /\ devices' = devices \ {d}
  /\ device_fds' = device_fds \ {d}
  /\ lst' = [s \in ListenerSlots |-> "none"]
  /\ UNCHANGED <<pressed_keys, last_trigger_time, primary_key, target_keys,
                 is_running, stop_event, listener_thread, gs_pc, now>>
  /\ UNCHANGED <<oldVars, ioVars>>

(* device.read() raises OSError: _remove_device(device) *)
DeviceError(d) ==
  /\ SomeListenerAlive
  /\ d \in devices /\ d \in device_fds
  /\ devices' = devices \ {d}
  /\ device_fds' = device_fds \ {d}
  /\ UNCHANGED <<pressed_keys, last_trigger_time, primary_key, target_keys,
                 is_running, stop_event, listener_thread, lst, gs_pc, now>>
  /\ UNCHANGED <<oldVars, ioVars>>

(* while not self.stop_event.is_set(): the loop ends, and the thread *)
ListenerExit(s) ==
  /\ lst[s] = "alive"
  /\ stop_event
  /\ lst' = [lst EXCEPT ![s] = "none"]
  /\ UNCHANGED <<pressed_keys, last_trigger_time, primary_key, target_keys,
                 devices, device_fds, is_running, stop_event, listener_thread,
                 gs_pc, now>>
  /\ UNCHANGED <<oldVars, ioVars>>

(* the callback, any callable, runs to its end on its own thread *)
CallbackRuns(t) ==
  /\ pc[t] = "on_shortcut"
  /\ Goto(t, "off")
  /\ UNCHANGED <<ctlVars, acVars, log, audio>>
  /\ UNCHANGED <<gsVars, ioVars>>

(* time passes *)
Tick ==
  /\ now < MaxTime
  /\ now' = now + 1
  /\ UNCHANGED <<pressed_keys, last_trigger_time, primary_key, target_keys,
                 devices, device_fds, is_running, stop_event, listener_thread,
                 lst, gs_pc>>
  /\ UNCHANGED <<oldVars, ioVars>>

----------------------------------------------------------------------------
(* GlobalShortcuts: the API, called from one thread (the main thread). *)

GsGoto(where) == gs_pc' = where

(* a call of start() or of stop() begins *)
GsCall ==
  /\ gs_pc = "idle"
  /\ \/ GsGoto("start_chk")
     \/ GsGoto("stop_chk")
  /\ UNCHANGED <<pressed_keys, last_trigger_time, primary_key, target_keys,
                 devices, device_fds, is_running, stop_event, listener_thread,
                 lst, now>>
  /\ UNCHANGED <<oldVars, ioVars>>

(* start: if self.is_running: return True; if not self.devices: rediscover *)
GsStartCheck ==
  /\ gs_pc = "start_chk"
  /\ IF is_running THEN GsGoto("idle")
     ELSE IF devices = {} THEN GsGoto("start_discover")
     ELSE GsGoto("start_spawn")
  /\ UNCHANGED <<pressed_keys, last_trigger_time, primary_key, target_keys,
                 devices, device_fds, is_running, stop_event, listener_thread,
                 lst, now>>
  /\ UNCHANGED <<oldVars, ioVars>>

(* _discover_keyboards(); if not self.devices: return False *)
GsStartDiscover ==
  /\ gs_pc = "start_discover"
  /\ \E found \in SUBSET DeviceIds :
       /\ devices' = found
       /\ device_fds' = found
       /\ GsGoto(IF found = {} THEN "idle" ELSE "start_spawn")
  /\ UNCHANGED <<pressed_keys, last_trigger_time, primary_key, target_keys,
                 is_running, stop_event, listener_thread, lst, now>>
  /\ UNCHANGED <<oldVars, ioVars>>

(* stop_event.clear(); the listener thread is started and is_running set,  *)
(* or start() of the thread raises and start returns False                 *)
GsStartSpawn ==
  /\ gs_pc = "start_spawn"
  /\ stop_event' = FALSE
  /\ \/ /\ \E s \in ListenerSlots :
             /\ lst[s] = "none"
             /\ \A r \in ListenerSlots : lst[r] = "none" => s <= r
             /\ lst' = [lst EXCEPT ![s] = "alive"]
             /\ listener_thread' = s
        /\ is_running' = TRUE
     \/ /\ listener_thread' = NoThread
        /\ UNCHANGED <<lst, is_running>>
  /\ GsGoto("idle")
  /\ UNCHANGED <<pressed_keys, last_trigger_time, primary_key, target_keys,
                 devices, device_fds, now>>
  /\ UNCHANGED <<oldVars, ioVars>>

(* stop: if not self.is_running: return; self.stop_event.set() *)
GsStopCheck ==
  /\ gs_pc = "stop_chk"
  /\ IF ~is_running
       THEN GsGoto("idle") /\ UNCHANGED stop_event
       ELSE GsGoto("stop_join") /\ stop_event' = TRUE
  /\ UNCHANGED <<pressed_keys, last_trigger_time, primary_key, target_keys,
                 devices, device_fds, is_running, listener_thread, lst, now>>
  /\ UNCHANGED <<oldVars, ioVars>>

(* self.listener_thread and self.listener_thread.is_alive() *)
ListenerThreadAlive ==
  IF listener_thread = NoThread THEN FALSE ELSE lst[listener_thread] # "none"

(* listener_thread.join(timeout=1.0): the thread has finished, or the wait *)
(* ends with the thread still alive                                        *)
GsStopJoin ==
  /\ gs_pc = "stop_join"
  /\ \/ /\ ~ListenerThreadAlive
        /\ GsGoto("stop_close")
     \/ /\ ListenerThreadAlive
        /\ GsGoto("stop_close")                \* the join timed out
  /\ UNCHANGED <<pressed_keys, last_trigger_time, primary_key, target_keys,
                 devices, device_fds, is_running, stop_event, listener_thread,
                 lst, now>>
  /\ UNCHANGED <<oldVars, ioVars>>

(* every device removed and closed; is_running = False;                    *)
(* pressed_keys.clear()                                                    *)
GsStopClose ==
  /\ gs_pc = "stop_close"
  /\ devices' = {}
  /\ device_fds' = {}
  /\ is_running' = FALSE
  /\ pressed_keys' = {}
  /\ GsGoto("idle")
  /\ UNCHANGED <<last_trigger_time, primary_key, target_keys, stop_event,
                 listener_thread, lst, now>>
  /\ UNCHANGED <<oldVars, ioVars>>

(* A variant of UpdateShortcut that also forgets the pressed keys. *)
UpdateShortcut_Resets(new_key) ==
  /\ gs_pc = "idle"
  /\ primary_key' = new_key
  /\ target_keys' = ParseKeyCombination(new_key)
  /\ pressed_keys' = {}
  /\ UNCHANGED <<last_trigger_time, devices, device_fds, is_running,
                 stop_event, listener_thread, lst, gs_pc, now>>
  /\ UNCHANGED <<oldVars, ioVars>>

(* update_shortcut(new_key) *)
UpdateShortcut(new_key) ==
  /\ gs_pc = "idle"
  /\ primary_key' = new_key
  /\ target_keys' = ParseKeyCombination(new_key)
  /\ UNCHANGED <<pressed_keys, last_trigger_time, devices, device_fds,
                 is_running, stop_event, listener_thread, lst, gs_pc, now>>
  /\ UNCHANGED <<oldVars, ioVars>>

(* get_status(): reads, writes nothing *)
GetStatus ==
  /\ gs_pc = "idle"
  /\ UNCHANGED <<gsVars, ioVars>>
  /\ UNCHANGED <<oldVars, ioVars>>

----------------------------------------------------------------------------
(* The watcher: its listener threads, the caller of its API, the clock and *)
(* the callbacks the triggers start.                                       *)

InitWatch ==
  /\ is_recording = FALSE
  /\ is_processing = FALSE
  /\ current_transcription = <<>>
  /\ pc = [t \in Threads |-> "off"]
  /\ log = [t \in Threads |-> <<>>]
  /\ audio = [t \in Threads |-> None]
  /\ ac_is_recording = FALSE
  /\ audio_data = <<>>
  /\ record_thread = NoThread
  /\ cap = [s \in CaptureSlots |-> "none"]
  /\ armed = FALSE
  /\ delivered = <<>>
  /\ \E found \in SUBSET DeviceIds : GsInit(found)
  /\ IoInit

Listener ==
  \/ \E d \in DeviceIds, k \in KeyCodes : KeyDown(d, k)
  \/ \E d \in DeviceIds, k \in KeyCodes : KeyUp(d, k)
  \/ \E d \in DeviceIds : DeviceError(d)
  \/ \E s \in ListenerSlots : ListenerExit(s)

GsApi ==
  \/ GsCall
  \/ GsStartCheck
  \/ GsStartDiscover
  \/ GsStartSpawn
  \/ GsStopCheck
  \/ GsStopJoin
  \/ GsStopClose
  \/ \E new_key \in KeySpecs : UpdateShortcut(new_key)
  \/ GetStatus

NextWatch ==
  \/ Listener
  \/ GsApi
  \/ \E t \in Handlers : CallbackRuns(t)
  \/ Tick

SpecWatch == InitWatch /\ [][NextWatch]_vars

----------------------------------------------------------------------------
(* What a callback saw when it read the controller's state. *)

SawProcessing(t) ==
  log[t] # <<>> /\ log[t][1] \in {"Processing", "Recording+Processing"}
SawRecording(t) ==
  log[t] # <<>> /\ log[t][1] \in {"Recording", "Recording+Processing"}
SawNotRecording(t) ==
  log[t] # <<>> /\ log[t][1] \in {"Idle", "Processing"}

InChain(t) == pc[t] \in {"transcribing", "inject", "proc_finally"}

(* The orders in which a stop callback and a start callback do their steps. *)
StopOrders ==
  { <<"rec_off", "recorder_stop", "stop_tone", "transcribe", "transcribed",
      "inject", "proc_off">>,
    <<"rec_off", "recorder_stop", "stop_tone", "transcribe", "transcribed",
      "inject", "raised", "proc_off">>,
    <<"rec_off", "recorder_stop", "stop_tone", "transcribe", "transcribed",
      "proc_off">>,
    <<"rec_off", "recorder_stop", "stop_tone", "transcribe", "raised",
      "proc_off">> }
StartOrders ==
  { <<"rec_on", "start_tone", "recorder_start">>,
    <<"rec_on", "start_tone", "recorder_start", "start_failed">> }

----------------------------------------------------------------------------
(* C1: a trigger handled while the controller is in Processing is ignored: *)
(* the callback that found the controller processing (and not recording)   *)
(* sets no flag, starts no recorder and starts no chain, so its log stays  *)
(* at the one entry of what it saw.                                        *)
C1_TriggerWhileProcessingIgnored ==
  \A t \in Handlers :
    (log[t] # <<>> /\ log[t][1] = "Processing") => Len(log[t]) = 1

(* C2: at most one call of transcribe_audio is in flight. *)
C2_OneTranscriptionInFlight ==
  Cardinality({t \in Handlers : pc[t] = "transcribing"}) <= 1

(* C3: the recording flag and the processing flag are never both set. *)
C3_ExactlyOneState == ~(is_recording /\ is_processing)

(* C4: an exception of transcription or injection does not leave the       *)
(* controller in Processing: whenever the processing flag is set some      *)
(* callback is still inside the chain, and a callback whose chain raised   *)
(* ends, like any other, after the finally clause has cleared the flag.    *)
C4_ProcessingNeverStuck ==
  /\ is_processing => \E t \in Handlers : InChain(t)
  /\ \A t \in Handlers :
       (pc[t] = "done" /\ InLog(t, "raised")) =>
         log[t][Len(log[t])] = "proc_off"

C4_Witness ==
  \E t \in Handlers :
    /\ pc[t] = "done"
    /\ InLog(t, "raised")
    /\ ~InLog(t, "inject")
    /\ ~is_processing
    /\ ~is_recording

(* C5: every buffer the recorder's stop returned is handed to the          *)
(* transcription backend: a callback that got a buffer does not end        *)
(* without having called transcribe_audio. Stated for the stop trigger of  *)
(* a recording that was started while an earlier chain was running.        *)
C5_NoBufferDropped ==
  \A t \in Handlers :
    (pc[t] = "done" /\ audio[t] # None /\ log[t][1] = "Recording+Processing")
      => InLog(t, "transcribe")

(* C6: trigger handling is atomic: every callback toggles (none returns    *)
(* at the second test of the flag having done nothing), and no two         *)
(* callbacks are both about to start, or both about to stop, the same      *)
(* recording.                                                              *)
C6_TriggersAtomic ==
  /\ \A t \in Handlers : pc[t] = "done" => Len(log[t]) > 1
  /\ Cardinality({t \in Handlers : pc[t] = "start_set"}) <= 1
  /\ Cardinality({t \in Handlers : pc[t] = "stop_set"}) <= 1

(* C7: a callback that found the controller recording does its steps in    *)
(* this order: recording flag off and recorder stopped, stop tone, call of *)
(* transcribe_audio, its return, injection, processing flag off; so        *)
(* injection never starts before the transcription has returned.           *)
C7_StopOrder ==
  \A t \in Handlers :
    SawRecording(t) => \E o \in StopOrders : IsPrefix(Tail(log[t]), o)

C7_Witness ==
  \E t \in Handlers :
    /\ pc[t] = "done"
    /\ log[t] = <<"Recording", "rec_off", "recorder_stop", "stop_tone",
                  "transcribe", "transcribed", "inject", "proc_off">>

(* C8: a callback that found the controller not recording sets the         *)
(* recording flag, then requests the start tone, then calls the recorder's *)
(* start_recording, and starts no transcription and no injection.          *)
C8_StartStep ==
  \A t \in Handlers :
    (pc[t] = "start_set" /\ pc'[t] # "start_set") =>
      (is_recording' /\ pc'[t] = "start_tone")

C8_StartOrder ==
  /\ [](\A t \in Handlers :
          SawNotRecording(t) => \E o \in StartOrders : IsPrefix(Tail(log[t]), o))
  /\ [][C8_StartStep]_vars

C8_Witness ==
  \E t \in Handlers :
    /\ pc[t] = "done"
    /\ log[t] = <<"Idle", "rec_on", "start_tone", "recorder_start">>
    /\ is_recording
    /\ ac_is_recording
    /\ \E s \in CaptureSlots : cap[s] # "none"

(* C9: the recorder's round trip: when stop_recording returns, its result  *)
(* is None if no block was delivered while the recorder was armed, and     *)
(* otherwise the concatenation, in delivery order, of the N blocks         *)
(* delivered, N * BlockLen samples long.                                   *)
C9_RoundTrip ==
  pc[Client] = "stopped" =>
    IF delivered = <<>>
      THEN audio[Client] = None
      ELSE /\ audio[Client] = Concatenate(delivered)
           /\ Len(audio[Client]) = Len(delivered) * BlockLen
           /\ \A i \in 1..Len(delivered) : \A j \in 1..BlockLen :
                audio[Client][(i - 1) * BlockLen + j] = delivered[i][j]

C9_Witness ==
  /\ pc[Client] = "stopped"
  /\ Len(delivered) = 2
  /\ delivered[1] # delivered[2]
  /\ audio[Client] # None

(* C10: once stop_recording has flipped the flag no callback appends to    *)
(* the buffer: while the recorder is not armed the buffer holds exactly    *)
(* the blocks delivered while it was armed; and the buffer a               *)
(* stop_recording returned changes only when a later stop_recording        *)
(* returns.                                                                *)
C10_ResultKept ==
  audio'[Client] # audio[Client] => pc[Client] \in {"ac_stop_chk", "ac_stop_read"}

C10_NoAppendAfterStop ==
  /\ [](~armed => audio_data = delivered)
  /\ [][C10_ResultKept]_vars

C10_Witness ==
  /\ pc[Client] = "stopped"
  /\ audio[Client] # None
  /\ ~armed
  /\ \E s \in CaptureSlots : cap[s] = "streaming"

(* C11: start_recording called while the recorder is already recording is  *)
(* a no-op (flag, chunks, record thread and capture threads unchanged) and *)
(* returns success by the "already recording" path, unless is_available()  *)
(* fails first and the call raises.                                        *)
C11_Call == pc[Client] = "ac_start_chk" /\ ac_is_recording /\ pc'[Client] # pc[Client]

C12_JoinTimeoutAbsent ==
  [][(pc[Client] = "ac_stop_read" /\ RecordThreadAlive /\ pc'[Client] # pc[Client])
       => audio'[Client] = None]_vars

(* C13: a stop when not recording is a no-op: stop_recording with the      *)
(* capture flag clear returns None and leaves the flag and the chunks as   *)
(* they are; _stop_recording with the recording flag clear returns having  *)
(* changed no controller state and having done nothing of its own.         *)
C13_Step ==
  \A t \in Handlers :
    /\ (pc[t] = "ac_stop_chk" /\ ~ac_is_recording /\ pc'[t] # pc[t]) =>
         /\ audio'[t] = None
         /\ pc'[t] = "stop_tone"
         /\ UNCHANGED <<ac_is_recording, audio_data, record_thread, cap>>
    /\ (pc[t] = "stop_chk" /\ ~is_recording /\ pc'[t] # pc[t]) =>
         /\ pc'[t] = "done"
         /\ log'[t] = log[t]
         /\ UNCHANGED <<ctlVars, acVars>>

C13_StopWhenNotRecordingNoOp == [][C13_Step]_vars

C13_Witness ==
  \E t, u \in Handlers :
    /\ pc[t] = "done" /\ log[t] = <<"Recording">>
    /\ pc[u] = "stop_tone" /\ audio[u] = None /\ audio_data # <<>>

----------------------------------------------------------------------------
(* Steps of the watcher, as the claims about it name them. *)

(* a key-down, or a key-up, event that changed something *)
KeyDownStep ==
  /\ pressed_keys' # pressed_keys \/ last_trigger_time' # last_trigger_time
  /\ \E d \in DeviceIds, k \in KeyCodes : KeyDown(d, k)
KeyUpStep ==
  /\ pressed_keys' # pressed_keys
  /\ \E d \in DeviceIds, k \in KeyCodes : KeyUp(d, k)

(* the callback threads started by the step *)
Started == {t \in Handlers : pc[t] = "off" /\ pc'[t] = "on_shortcut"}
Fired == Started # {}

ChordHeld == target_keys \subseteq pressed_keys
(* C14: chord detection. A key-down that leaves the chord incomplete does  *)
(* not fire; one that completes it fires exactly one callback when more    *)
(* than the debounce interval has passed since the last firing (always so  *)
(* for the first firing), and does not fire less than the interval after   *)
(* it.                                                                     *)
C14_Step ==
  KeyDownStep =>
    /\ ~ChordHeld' => ~Fired
    /\ (ChordHeld' /\ now - last_trigger_time < debounce_time) => ~Fired
    /\ (ChordHeld' /\ now - last_trigger_time > debounce_time) =>
         Cardinality(Started) = 1
    /\ (ChordHeld' /\ last_trigger_time = 0) => Cardinality(Started) = 1

C14_ChordDebounce == [][C14_Step]_vars

C14_Witness ==
  /\ pc[1] = "off"
  /\ pc[2] = "on_shortcut"
  /\ last_trigger_time = now
  /\ primary_key = <<"a", "b">>
  /\ pressed_keys = {"KEY_A", "KEY_B"}

(* C15: a key-down that leaves the chord held fires whenever at least the  *)
(* debounce interval has passed since the last firing, exactly the         *)
(* interval included, and the timestamp changes only when the trigger      *)
(* fires.                                                                  *)
C15_Step ==
  /\ (KeyDownStep /\ ChordHeld' /\ now - last_trigger_time >= debounce_time) =>
       (Fired /\ last_trigger_time' = now)
  /\ last_trigger_time' # last_trigger_time => Fired

C15_FiresAtInterval == [][C15_Step]_vars

(* C16: the event loop never waits for a callback: whatever the callbacks  *)
(* are doing, a live listener can take a key-up event of each of its       *)
(* devices, and a key-down event of each, the firing ones too when a       *)
(* callback thread can still be started.                                   *)
C16_WatcherNeverWaits ==
  \A d \in DeviceIds, k \in KeyCodes :
    (SomeListenerAlive /\ d \in devices /\ d \in device_fds) =>
      /\ ENABLED KeyUp(d, k)
      /\ (\E t \in Handlers : pc[t] = "off") => ENABLED KeyDown(d, k)

C16_Witness ==
  /\ \A t \in Handlers : pc[t] = "on_shortcut"
  /\ SomeListenerAlive
  /\ ~stop_event
  /\ pressed_keys = {}

(* C17: pressed_keys is written only by a listener thread's event          *)
(* processing while a listener thread is alive.                            *)
C17_OnlyListenerWrites ==
  [][(pressed_keys' # pressed_keys /\ SomeListenerAlive)
       => (KeyDownStep \/ KeyUpStep)]_vars

(* C18: a device that errors on read leaves devices and device_fds (it is  *)
(* closed), nothing else of the watcher changes and the listener stays     *)
(* alive; a listener ends only once stop_event is set, also with no        *)
(* device left; and a live listener can take the events of every device    *)
(* that remains.                                                           *)
C18_Step ==
  /\ (devices' # devices /\ gs_pc \notin {"start_discover", "stop_close"}) =>
       /\ \E d \in devices : devices' = devices \ {d} /\ device_fds' = device_fds \ {d}
       /\ lst' = lst
       /\ UNCHANGED <<pressed_keys, last_trigger_time, target_keys, is_running,
                      stop_event>>
  /\ \A s \in ListenerSlots :
       (lst[s] = "alive" /\ lst'[s] = "none") => stop_event

C18_DeviceLossSurvived ==
  /\ [][C18_Step]_vars
  /\ [](\A d \in DeviceIds, k \in KeyCodes :
          (SomeListenerAlive /\ d \in devices /\ d \in device_fds) =>
            ENABLED KeyUp(d, k))

C18_Witness ==
  /\ devices = {}
  /\ device_fds = {}
  /\ is_running
  /\ ~stop_event
  /\ gs_pc = "idle"
  /\ ListenerThreadAlive

(* C19: a start() called on the running watcher that has lost every        *)
(* device goes on to _discover_keyboards().                                *)
C19_StartRediscovers ==
  [][(gs_pc = "start_chk" /\ devices = {} /\ is_running /\ ListenerThreadAlive
        /\ gs_pc' # gs_pc)
       => gs_pc' = "start_discover"]_vars

(* C20: update_shortcut swaps the chord and nothing else: target_keys is   *)
(* always the parse of primary_key; the step that changes the key string   *)
(* leaves the pressed keys, the timestamp, the devices and the running     *)
(* state as they are; and a key-down fires only with the current chord     *)
(* held, and does fire with it held once the debounce interval is over.    *)
C20_Step ==
  /\ primary_key' # primary_key =>
       UNCHANGED <<pressed_keys, last_trigger_time, devices, device_fds,
                   is_running, stop_event, listener_thread, lst>>
  /\ Fired => (ChordHeld' /\ target_keys' = target_keys)
  /\ (KeyDownStep /\ ChordHeld' /\ now - last_trigger_time > debounce_time)
       => Fired

C20_HotSwap ==
  /\ [](target_keys = ParseKeyCombination(primary_key))
  /\ [][C20_Step]_vars

C20_Witness ==
  /\ primary_key = <<"B">>
  /\ target_keys = {"KEY_B"}
  /\ pressed_keys = {"KEY_B"}
  /\ last_trigger_time = now
  /\ last_trigger_time > StartTime + debounce_time
  /\ \E t \in Handlers : pc[t] = "on_shortcut"

----------------------------------------------------------------------------
(* WhisperManager.transcribe_audio, called by _process_audio. The buffer   *)
(* is seen by its number of samples; the files are the temporary WAV file  *)
(* ("wav") and the text file whisper.cpp writes next to it ("txt").        *)

Raised == <<"Raised">>              \* the call ended with an exception
sample_rate == 16000                \* transcribe_audio's default sample_rate
(* int(sample_rate * 0.1) *)
min_samples == sample_rate \div 10
(* an array of n samples, and len(audio_data) *)
Samples(n) == <<"ndarray", n>>
SampleCount(buf) == buf[2]
Buffers ==
  {None} \cup {Samples(n) : n \in {0, 1, min_samples - 1, min_samples, min_samples + 1}}
(* audio_data is None, len(audio_data) == 0, len(audio_data) < least *)
TooShort(buf, least) ==
  IF buf = None THEN TRUE ELSE SampleCount(buf) = 0 \/ SampleCount(buf) < least

(* A variant of WmCheck that also turns away a buffer of min_samples. *)
WmCheck_AtMost(t) ==
  /\ pc[t] = "transcribing"
  /\ wm_pc = "idle"
  /\ IF ~wm_ready
       THEN wm_result' = Raised /\ wm_pc' = "done"
       ELSE IF TooShort(wm_audio, min_samples + 1)
              THEN wm_result' = <<>> /\ wm_pc' = "done"
              ELSE UNCHANGED wm_result /\ wm_pc' = "mktemp"
  /\ UNCHANGED <<wm_ready, wm_audio, wm_files, wm_made, wm_backend, wm_transcription>>
  /\ UNCHANGED <<oldVars, gsVars, tiVars, global_shortcuts>>

(* the checks of transcribe_audio: not ready raises; None, no samples or   *)
(* fewer than min_samples returns ""                                       *)
WmCheck(t) ==
  /\ pc[t] = "transcribing"
  /\ wm_pc = "idle"
  /\ IF ~wm_ready
       THEN wm_result' = Raised /\ wm_pc' = "done"
       ELSE IF TooShort(wm_audio, min_samples)
              THEN wm_result' = <<>> /\ wm_pc' = "done"
              ELSE UNCHANGED wm_result /\ wm_pc' = "mktemp"
  /\ UNCHANGED <<wm_ready, wm_audio, wm_files, wm_made, wm_backend, wm_transcription>>
  /\ UNCHANGED <<oldVars, gsVars, tiVars, global_shortcuts>>

(* tempfile.NamedTemporaryFile(delete=False): the file is there, or the    *)
(* call raises, outside the try                                            *)
WmMakeTemp ==
  /\ wm_pc = "mktemp"
  /\ \/ /\ wm_files' = wm_files \cup {"wav"}
        /\ wm_made' = wm_made \cup {"wav"}
        /\ wm_pc' = "save"
        /\ UNCHANGED wm_result
     \/ /\ wm_result' = Raised
        /\ wm_pc' = "done"
        /\ UNCHANGED <<wm_files, wm_made>>
  /\ UNCHANGED <<wm_ready, wm_audio, wm_backend, wm_transcription>>
  /\ UNCHANGED <<oldVars, gsVars, tiVars, global_shortcuts>>

(* _save_audio_as_wav: the file is written, or the write raises *)
WmSaveWav ==
  /\ wm_pc = "save"
  /\ \/ wm_pc' = "run" /\ UNCHANGED wm_transcription
     \/ wm_pc' = "finally" /\ wm_transcription' = Raised
  /\ UNCHANGED <<wm_ready, wm_audio, wm_files, wm_made, wm_backend, wm_result>>
  /\ UNCHANGED <<oldVars, gsVars, tiVars, global_shortcuts>>

(* A variant of WmRunWhisper where the timeout is not caught. *)
WmRunWhisper_TimeoutRaises ==
  /\ wm_pc = "run"
  /\ \/ /\ wm_backend' = "ok"
        /\ wm_files' = wm_files \cup {"txt"}
        /\ wm_made' = wm_made \cup {"txt"}
        /\ UNCHANGED wm_transcription
        /\ wm_pc' = "read"
     \/ /\ wm_backend' = "ok"
        /\ \E out \in BackendTexts : wm_transcription' = Strip(out)
        /\ UNCHANGED <<wm_files, wm_made>>
        /\ wm_pc' = "finally"
     \/ /\ wm_backend' = "nonzero"
        /\ wm_transcription' = <<>>
        /\ UNCHANGED <<wm_files, wm_made>>
        /\ wm_pc' = "finally"
     \/ /\ wm_backend' = "timeout"
        /\ wm_transcription' = Raised
        /\ UNCHANGED <<wm_files, wm_made>>
        /\ wm_pc' = "finally"
     \/ /\ wm_backend' = "error"
        /\ wm_transcription' = <<>>
        /\ UNCHANGED <<wm_files, wm_made>>
        /\ wm_pc' = "finally"
  /\ UNCHANGED <<wm_ready, wm_audio, wm_result>>
  /\ UNCHANGED <<oldVars, gsVars, tiVars, global_shortcuts>>

(* _run_whisper, subprocess.run(cmd, timeout=30): the process exits with 0 *)
(* and has written the text file, or exits with 0 without one (stdout is   *)
(* the text), or exits with another status, or runs into the timeout, or   *)
(* cannot be run at all                                                    *)
WmRunWhisper ==
  /\ wm_pc = "run"
  /\ \/ /\ wm_backend' = "ok"
        /\ wm_files' = wm_files \cup {"txt"}
        /\ wm_made' = wm_made \cup {"txt"}
        /\ UNCHANGED wm_transcription
        /\ wm_pc' = "read"
     \/ /\ wm_backend' = "ok"
        /\ \E out \in BackendTexts : wm_transcription' = Strip(out)
        /\ UNCHANGED <<wm_files, wm_made>>
        /\ wm_pc' = "finally"
     \/ /\ wm_backend' = "nonzero"
        /\ wm_transcription' = <<>>
        /\ UNCHANGED <<wm_files, wm_made>>
        /\ wm_pc' = "finally"
     \/ /\ wm_backend' = "timeout"
        /\ wm_transcription' = <<>>
        /\ UNCHANGED <<wm_files, wm_made>>
        /\ wm_pc' = "finally"
     \/ /\ wm_backend' = "error"
        /\ wm_transcription' = <<>>
        /\ UNCHANGED <<wm_files, wm_made>>
        /\ wm_pc' = "finally"
  /\ UNCHANGED <<wm_ready, wm_audio, wm_result>>
  /\ UNCHANGED <<oldVars, gsVars, tiVars, global_shortcuts>>

(* the text file exists: f.read().strip(), then os.unlink(txt_file); an    *)
(* exception of open or read is caught by except Exception, which returns  *)
(* "" and leaves the file                                                  *)
WmReadTxt ==
  /\ wm_pc = "read"
  /\ \/ /\ \E out \in BackendTexts : wm_transcription' = Strip(out)
        /\ wm_files' = wm_files \ {"txt"}
     \/ /\ wm_transcription' = <<>>
        /\ UNCHANGED wm_files
  /\ wm_pc' = "finally"
  /\ UNCHANGED <<wm_ready, wm_audio, wm_made, wm_backend, wm_result>>
  /\ UNCHANGED <<oldVars, gsVars, tiVars, global_shortcuts>>

(* return transcription.strip() if transcription else "", and the finally: *)
(* os.unlink(temp_wav_path)                                                *)
WmFinally ==
  /\ wm_pc = "finally"
  /\ wm_files' = wm_files \ {"wav"}
  /\ wm_result' = IF wm_transcription = Raised THEN Raised
                  ELSE IF wm_transcription # <<>> THEN Strip(wm_transcription)
                  ELSE <<>>
  /\ wm_pc' = "done"
  /\ UNCHANGED <<wm_ready, wm_audio, wm_made, wm_backend, wm_transcription>>
  /\ UNCHANGED <<oldVars, gsVars, tiVars, global_shortcuts>>

(* back in _process_audio with what transcribe_audio returned or raised *)
WmReturn(t) ==
  /\ pc[t] = "transcribing"
  /\ wm_pc = "done"
  /\ IF wm_result = Raised THEN TranscribeRaised(t) ELSE AfterTranscribe(t, wm_result)
  /\ wm_pc' = "returned"
  /\ UNCHANGED <<is_recording, is_processing, acVars, audio>>
  /\ UNCHANGED <<wm_ready, wm_audio, wm_files, wm_made, wm_backend, wm_transcription,
                 wm_result>>
  /\ UNCHANGED <<gsVars, tiVars, global_shortcuts>>

(* One callback thread is about to process a buffer; run() has started    *)
(* the hotkey watcher after initialize() returned True, so the adapter is  *)
(* ready.                                                                  *)
Caller == 1

InitWhisper ==
  /\ is_recording = FALSE
  /\ is_processing = FALSE
  /\ current_transcription = <<>>
  /\ pc = [t \in Threads |-> IF t = Caller THEN "proc_set" ELSE "off"]
  /\ log = [t \in Threads |-> <<>>]
  /\ audio = [t \in Threads |-> None]
  /\ ac_is_recording = FALSE
  /\ audio_data = <<>>
  /\ record_thread = NoThread
  /\ cap = [s \in CaptureSlots |-> "none"]
  /\ armed = FALSE
  /\ delivered = <<>>
  /\ GsInit(DeviceIds)
  /\ \E buf \in Buffers : WmInit(TRUE, buf)
  /\ TiInit(<<>>, <<>>, TRUE, FALSE)
  /\ global_shortcuts = TRUE

NextWhisper ==
  \/ ProcSet(Caller)
  \/ WmCheck(Caller)
  \/ WmMakeTemp
  \/ WmSaveWav
  \/ WmRunWhisper
  \/ WmReadTxt
  \/ WmFinally
  \/ WmReturn(Caller)
  \/ InjectText(Caller)
  \/ ProcFinally(Caller)

SpecWhisper == InitWhisper /\ [][NextWhisper]_vars

----------------------------------------------------------------------------
(* TextInjector._preprocess_text. A text is a sequence of characters.      *)

MaxWords == 3                       \* the words of a text that is normalized
MaxInjectWords == 1                 \* the words of a text that is injected

(* the words a transcription is made of: ordinary words and trigger phrases *)
Word == [
  say |-> <<"s", "a", "y">>,
  hello |-> <<"h", "e", "l", "l", "o">>,
  period |-> <<"p", "e", "r", "i", "o", "d">>,
  question |-> <<"Q", "u", "e", "s", "t", "i", "o", "n">>,
  mark |-> <<"m", "a", "r", "k">>,
  tab |-> <<"t", "a", "b">>,
  open_paren |-> <<"o", "p", "e", "n", " ", "p", "a", "r", "e", "n">>,
  close_paren |-> <<"c", "l", "o", "s", "e", " ", "p", "a", "r", "e", "n">>,
  new_line |-> <<"n", "e", "w", " ", "l", "i", "n", "e">>]
Dot == <<"d", "o", "t">>
Words == {Word[k] : k \in DOMAIN Word}
Seps == {<<" ">>, <<"\n">>}

(* sep.join(ws) *)
RECURSIVE Join(_, _)
Join(ws, sep) ==
  IF ws = <<>> THEN <<>>
  ELSE IF Len(ws) = 1 THEN ws[1]
  ELSE ws[1] \o sep \o Join(Tail(ws), sep)

WordSeqs(n) == UNION {[1..k -> Words] : k \in 0..n}
Texts == {Join(ws, sep) : ws \in WordSeqs(MaxWords), sep \in Seps}

(* the configured word_overrides: none, or "period" -> "dot" *)
OverrideTables ==
  {<<>>, << <<Word.period, Dot>> >>, << <<Word.mark, <<"\n">> >> >>}

(* str.lower() of one character, as re.IGNORECASE compares *)
ToLower ==
  ("A" :> "a") @@ ("B" :> "b") @@ ("C" :> "c") @@ ("D" :> "d") @@ ("E" :>
  "e") @@ ("F" :> "f") @@ ("G" :> "g") @@ ("H" :> "h") @@ ("I" :> "i") @@
  ("J" :> "j") @@ ("K" :> "k") @@ ("L" :> "l") @@ ("M" :> "m") @@ ("N" :>
  "n") @@ ("O" :> "o") @@ ("P" :> "p") @@ ("Q" :> "q") @@ ("R" :> "r") @@
  ("S" :> "s") @@ ("T" :> "t") @@ ("U" :> "u") @@ ("V" :> "v") @@ ("W" :>
  "w") @@ ("X" :> "x") @@ ("Y" :> "y") @@ ("Z" :> "z")
UpperLetters == DOMAIN ToLower
CharLower(c) == IF c \in UpperLetters THEN ToLower[c] ELSE c

(* \w: a letter or the underscore (the texts hold no digits) *)
WordChars == UpperLetters \cup {ToLower[u] : u \in UpperLetters} \cup {"_"}

(* \b at position i, between s[i-1] and s[i] *)
WordBoundary(s, i) ==
  (IF i > 1 THEN s[i - 1] \in WordChars ELSE FALSE)
    # (IF i <= Len(s) THEN s[i] \in WordChars ELSE FALSE)

(* a pattern: the literal lit, with \b before it (pre) and after it (post) *)
WholeWord(w) == [pre |-> TRUE, lit |-> w, post |-> TRUE]

(* the pattern matches at position i of s *)
MatchAt(pat, s, i) ==
  /\ CharLower(s[i]) = CharLower(pat.lit[1])
  /\ i + Len(pat.lit) - 1 <= Len(s)
  /\ \A j \in 1..Len(pat.lit) : CharLower(s[i + j - 1]) = CharLower(pat.lit[j])
  /\ pat.pre => WordBoundary(s, i)
  /\ pat.post => WordBoundary(s, i + Len(pat.lit))

(* the positions at or after i where the pattern matches *)
MatchesFrom(pat, s, i) == {k \in i..Len(s) : MatchAt(pat, s, k)}

(* re.sub(pattern, repl, s, flags=re.IGNORECASE): the leftmost match is    *)
(* replaced and the scan goes on behind it                                 *)
RECURSIVE ReSubFrom(_, _, _, _)
ReSubCut(pat, repl, s, i, k) ==
  SubSeq(s, i, k - 1) \o repl \o ReSubFrom(pat, repl, s, k + Len(pat.lit))
ReSubScan(pat, repl, s, i, found) ==
  IF found = {} THEN SubSeq(s, i, Len(s)) 
  ELSE ReSubCut(pat, repl, s, i, CHOOSE k \in found : \A m \in found : k <= m)
ReSubFrom(pat, repl, s, i) == ReSubScan(pat, repl, s, i, MatchesFrom(pat, s, i))
ReSub(pat, repl, s) == ReSubFrom(pat, repl, s, 1)

(* str.replace(old, new) *)
StrReplace(s, old, new) ==
  ReSub([pre |-> FALSE, lit |-> old, post |-> FALSE], new, s)

(* the dict replacements of _preprocess_text, in its order; the pattern of *)
(* the line-break rule is r'\new line\b': a line feed, then "ew line"      *)
replacements == <<
  <<WholeWord(<<"p", "e", "r", "i", "o", "d">>), <<".">>>>,
  <<WholeWord(<<"c", "o", "m", "m", "a">>), <<",">>>>,
  <<WholeWord(<<"q", "u", "e", "s", "t", "i", "o", "n", " ", "m", "a", "r", "k">>), <<"?">>>>,
  <<WholeWord(<<"e", "x", "c", "l", "a", "m", "a", "t", "i", "o", "n", " ", "m", "a", "r", "k">>), <<"!">>>>,
  <<WholeWord(<<"c", "o", "l", "o", "n">>), <<":">>>>,
  <<WholeWord(<<"s", "e", "m", "i", "c", "o", "l", "o", "n">>), <<";">>>>,
  <<[pre |-> FALSE, lit |-> <<"\n", "e", "w", " ", "l", "i", "n", "e">>, post |-> TRUE], <<"\n">>>>,
  <<WholeWord(<<"t", "a", "b">>), <<"\t">>>>,
  <<WholeWord(<<"d", "a", "s", "h">>), <<"-">>>>,
  <<WholeWord(<<"u", "n", "d", "e", "r", "s", "c", "o", "r", "e">>), <<"_">>>>,
  <<WholeWord(<<"o", "p", "e", "n", " ", "p", "a", "r", "e", "n">>), <<"(">>>>,
  <<WholeWord(<<"c", "l", "o", "s", "e", " ", "p", "a", "r", "e", "n">>), <<")">>>>,
  <<WholeWord(<<"o", "p", "e", "n", " ", "b", "r", "a", "c", "k", "e", "t">>), <<"[">>>>,
  <<WholeWord(<<"c", "l", "o", "s", "e", " ", "b", "r", "a", "c", "k", "e", "t">>), <<"]">>>>,
  <<WholeWord(<<"o", "p", "e", "n", " ", "b", "r", "a", "c", "e">>), <<"{">>>>,
  <<WholeWord(<<"c", "l", "o", "s", "e", " ", "b", "r", "a", "c", "e">>), <<"}">>>>,
  <<WholeWord(<<"a", "t", " ", "s", "y", "m", "b", "o", "l">>), <<"@">>>>,
  <<WholeWord(<<"h", "a", "s", "h">>), <<"#">>>>,
  <<WholeWord(<<"d", "o", "l", "l", "a", "r", " ", "s", "i", "g", "n">>), <<"$">>>>,
  <<WholeWord(<<"p", "e", "r", "c", "e", "n", "t">>), <<"%">>>>,
  <<WholeWord(<<"c", "a", "r", "e", "t">>), <<"^">>>>,
  <<WholeWord(<<"a", "m", "p", "e", "r", "s", "a", "n", "d">>), <<"&">>>>,
  <<WholeWord(<<"a", "s", "t", "e", "r", "i", "s", "k">>), <<"*">>>>,
  <<WholeWord(<<"p", "l", "u", "s">>), <<"+">>>>,
  <<WholeWord(<<"e", "q", "u", "a", "l", "s">>), <<"=">>>>,
  <<WholeWord(<<"l", "e", "s", "s", " ", "t", "h", "a", "n">>), <<"<">>>>,
  <<WholeWord(<<"g", "r", "e", "a", "t", "e", "r", " ", "t", "h", "a", "n">>), <<">">>>>,
  <<WholeWord(<<"s", "l", "a", "s", "h">>), <<"/">>>>,
  <<WholeWord(<<"b", "a", "c", "k", "s", "l", "a", "s", "h">>), <<"\\">>>>,
  <<WholeWord(<<"p", "i", "p", "e">>), <<"|">>>>,
  <<WholeWord(<<"t", "i", "l", "d", "e">>), <<"~">>>>,
  <<WholeWord(<<"g", "r", "a", "v", "e">>), <<"`">>>>,
  <<WholeWord(<<"q", "u", "o", "t", "e">>), <<"\"">>>>,
  <<WholeWord(<<"a", "p", "o", "s", "t", "r", "o", "p", "h", "e">>), <<"'">>>>
>>

(* for pattern, replacement in rules: s = re.sub(pattern, replacement, s)  *)
RECURSIVE ApplyAll(_, _)
ApplyAll(rules, s) ==
  IF rules = <<>> \/ s = <<>> THEN s
  ELSE ApplyAll(Tail(rules), ReSub(Head(rules)[1], Head(rules)[2], s))

(* _apply_word_overrides: r'\b' + re.escape(original) + r'\b' for each     *)
(* pair with a non-empty original and replacement                          *)
ApplyWordOverrides(overrides, s) ==
  IF overrides = <<>> THEN s
  ELSE ApplyAll([k \in 1..Len(overrides) |->
                  <<WholeWord(overrides[k][1]), overrides[k][2]>>], s)

(* re.sub(r'[ \t]+', ' ', s) *)
RECURSIVE CollapseBlanks(_)
CollapseBlanks(s) ==
  IF s = <<>> THEN <<>>
  ELSE IF Head(s) \in {" ", "\t"}
         THEN IF Len(s) > 1 /\ s[2] \in {" ", "\t"}
                THEN CollapseBlanks(Tail(s))
                ELSE <<" ">> \o CollapseBlanks(Tail(s))
         ELSE <<Head(s)>> \o CollapseBlanks(Tail(s))

RECURSIVE SkipSpaces(_)
SkipSpaces(s) == IF s # <<>> /\ Head(s) = " " THEN SkipSpaces(Tail(s)) ELSE s

(* re.sub(r' *\n *', '\n', s) *)
RECURSIVE TightenNewlines(_)
TightenNewlines(s) ==
  IF s = <<>> THEN <<>>
  ELSE IF SkipSpaces(s) # <<>> /\ Head(SkipSpaces(s)) = "\n"
         THEN <<"\n">> \o TightenNewlines(SkipSpaces(Tail(SkipSpaces(s))))
         ELSE <<Head(s)>> \o TightenNewlines(Tail(s))

(* text.replace('\r\n', ' ').replace('\r', ' ').replace('\n', ' ') *)
FlattenLineBreaks(s) ==
  StrReplace(StrReplace(StrReplace(s, <<"\r", "\n">>, <<" ">>), <<"\r">>, <<" ">>),
             <<"\n">>, <<" ">>)

(* A variant of TidyWhitespace without the rule for runs of blanks. *)
TidyWhitespace_NoCollapse(s) == Strip(TightenNewlines(s))

(* the tail of _preprocess_text: the two whitespace rules, then strip() *)
TidyWhitespace(s) == Strip(TightenNewlines(CollapseBlanks(s)))

(* A variant of PreprocessText that applies the overrides after the        *)
(* built-in rules.                                                         *)
PreprocessText_RulesFirst(overrides, s) ==
  TidyWhitespace(ApplyWordOverrides(overrides,
                   ApplyAll(replacements, FlattenLineBreaks(s))))

(* _preprocess_text *)
PreprocessText(overrides, s) ==
  TidyWhitespace(ApplyAll(replacements,
                   ApplyWordOverrides(overrides, FlattenLineBreaks(s))))

injVars == <<ydotool_available, clipboard_behavior, inj_pc, processed_text,
             clipboard, keystrokes, clear_threads, inj_result>>

(* normalized = _preprocess_text(text) *)
Normalize ==
  /\ normalized = None
  /\ normalized' = PreprocessText(word_overrides, text)
  /\ UNCHANGED <<text, word_overrides, renormalized, injVars>>
  /\ UNCHANGED <<oldVars, gsVars, wmVars, global_shortcuts>>

(* renormalized = _preprocess_text(normalized) *)
Renormalize ==
  /\ normalized # None
  /\ renormalized = None
  /\ renormalized' = PreprocessText(word_overrides, normalized)
  /\ UNCHANGED <<text, word_overrides, normalized, injVars>>
  /\ UNCHANGED <<oldVars, gsVars, wmVars, global_shortcuts>>

(* The normalizer alone, on every text and table of overrides. *)
InitNorm ==
  /\ is_recording = FALSE
  /\ is_processing = FALSE
  /\ current_transcription = <<>>
  /\ pc = [t \in Threads |-> "off"]
  /\ log = [t \in Threads |-> <<>>]
  /\ audio = [t \in Threads |-> None]
  /\ ac_is_recording = FALSE
  /\ audio_data = <<>>
  /\ record_thread = NoThread
  /\ cap = [s \in CaptureSlots |-> "none"]
  /\ armed = FALSE
  /\ delivered = <<>>
  /\ GsInit(DeviceIds)
  /\ WmInit(TRUE, None)
  /\ global_shortcuts = TRUE
  /\ \E t \in Texts, overrides \in OverrideTables : TiInit(t, overrides, TRUE, FALSE)

NextNorm == Normalize \/ Renormalize

SpecNorm == InitNorm /\ [][NextNorm]_vars

----------------------------------------------------------------------------
(* TextInjector.inject_text, one call. *)

(* the whitespace a text starts with or ends with *)
Edges == {<<>>, <<" ">>, <<"\n">>, <<"\r", "\n">>}
InjectTexts ==
  {h \o Join(ws, <<" ">>) \o tl : ws \in WordSeqs(MaxInjectWords), h \in Edges, tl \in Edges}

(* str.rstrip(chars) *)
RECURSIVE RStripChars(_, _)
RStripChars(s, chars) ==
  IF s # <<>> /\ s[Len(s)] \in chars
    THEN RStripChars(SubSeq(s, 1, Len(s) - 1), chars)
    ELSE s

(* A variant of ProcessedText that hands the text on as it came. *)
ProcessedText_Raw(overrides, s) == s

(* processed_text = self._preprocess_text(text).rstrip("\r\n") *)
ProcessedText(overrides, s) == RStripChars(PreprocessText(overrides, s), {"\r", "\n"})

(* A variant of InjCheck that turns away the empty text only. *)
InjCheck_EmptyOnly ==
  /\ inj_pc = "idle"
  /\ IF text = <<>>
       THEN /\ inj_result' = "True"
            /\ inj_pc' = "done"
            /\ UNCHANGED processed_text
       ELSE /\ processed_text' = ProcessedText(word_overrides, text)
            /\ inj_pc' = "copy"
            /\ UNCHANGED inj_result
  /\ UNCHANGED <<text, word_overrides, ydotool_available, clipboard_behavior,
                 normalized, renormalized, clipboard, keystrokes, clear_threads>>
  /\ UNCHANGED <<oldVars, gsVars, wmVars, global_shortcuts>>

(* if not text or text.strip() == "": return True; else the text is        *)
(* preprocessed                                                            *)
InjCheck ==
  /\ inj_pc = "idle"
  /\ IF text = <<>> \/ Strip(text) = <<>>
       THEN /\ inj_result' = "True"
            /\ inj_pc' = "done"
            /\ UNCHANGED processed_text
       ELSE /\ processed_text' = ProcessedText(word_overrides, text)
            /\ inj_pc' = "copy"
            /\ UNCHANGED inj_result
  /\ UNCHANGED <<text, word_overrides, ydotool_available, clipboard_behavior,
                 normalized, renormalized, clipboard, keystrokes, clear_threads>>
  /\ UNCHANGED <<oldVars, gsVars, wmVars, global_shortcuts>>

(* A variant of InjCopy that goes on to the paste chord in either case. *)
InjCopy_AlwaysPastes ==
  /\ inj_pc = "copy"
  /\ \/ /\ clipboard' = processed_text
        /\ inj_pc' = "paste"
        /\ UNCHANGED inj_result
     \/ /\ inj_result' = "False"
        /\ inj_pc' = "done"
        /\ UNCHANGED clipboard
  /\ UNCHANGED <<text, word_overrides, ydotool_available, clipboard_behavior,
                 normalized, renormalized, processed_text, keystrokes, clear_threads>>
  /\ UNCHANGED <<oldVars, gsVars, wmVars, global_shortcuts>>

(* _inject_via_clipboard_and_hotkey or _inject_via_clipboard: wl-copy or   *)
(* pyperclip.copy sets the clipboard, or raises and the method returns     *)
(* False, which inject_text returns                                        *)
InjCopy ==
  /\ inj_pc = "copy"
  /\ \/ /\ clipboard' = processed_text
        /\ inj_pc' = (IF ydotool_available THEN "paste" ELSE "after")
        /\ UNCHANGED inj_result
     \/ /\ inj_result' = "False"
        /\ inj_pc' = "done"
        /\ UNCHANGED clipboard
  /\ UNCHANGED <<text, word_overrides, ydotool_available, clipboard_behavior,
                 normalized, renormalized, processed_text, keystrokes, clear_threads>>
  /\ UNCHANGED <<oldVars, gsVars, wmVars, global_shortcuts>>

(* ydotool key ...: the chord is pressed and the status is 0, or the       *)
(* status is not 0, or the command cannot be run or times out              *)
InjPaste ==
  /\ inj_pc = "paste"
  /\ \/ /\ keystrokes' = keystrokes + 1
        /\ inj_pc' = "after"
        /\ UNCHANGED inj_result
     \/ /\ keystrokes' = keystrokes + 1
        /\ inj_result' = "False"
        /\ inj_pc' = "done"
     \/ /\ UNCHANGED keystrokes
        /\ inj_result' = "False"
        /\ inj_pc' = "done"
  /\ UNCHANGED <<text, word_overrides, ydotool_available, clipboard_behavior,
                 normalized, renormalized, processed_text, clipboard, clear_threads>>
  /\ UNCHANGED <<oldVars, gsVars, wmVars, global_shortcuts>>

(* success: if clipboard_behavior, _schedule_clipboard_clear starts a      *)
(* thread; return success                                                  *)
InjSchedule ==
  /\ inj_pc = "after"
  /\ clear_threads' = IF clipboard_behavior THEN clear_threads + 1 ELSE clear_threads
  /\ inj_result' = "True"
  /\ inj_pc' = "done"
  /\ UNCHANGED <<text, word_overrides, ydotool_available, clipboard_behavior,
                 normalized, renormalized, processed_text, clipboard, keystrokes>>
  /\ UNCHANGED <<oldVars, gsVars, wmVars, global_shortcuts>>

(* The injector alone, on every text and configuration. *)
InitInject ==
  /\ is_recording = FALSE
  /\ is_processing = FALSE
  /\ current_transcription = <<>>
  /\ pc = [t \in Threads |-> "off"]
  /\ log = [t \in Threads |-> <<>>]
  /\ audio = [t \in Threads |-> None]
  /\ ac_is_recording = FALSE
  /\ audio_data = <<>>
  /\ record_thread = NoThread
  /\ cap = [s \in CaptureSlots |-> "none"]
  /\ armed = FALSE
  /\ delivered = <<>>
  /\ GsInit(DeviceIds)
  /\ WmInit(TRUE, None)
  /\ global_shortcuts = TRUE
  /\ \E t \in InjectTexts, overrides \in OverrideTables, ydotool \in BOOLEAN,
        behavior \in BOOLEAN : TiInit(t, overrides, ydotool, behavior)

NextInject == InjCheck \/ InjCopy \/ InjPaste \/ InjSchedule

SpecInject == InitInject /\ [][NextInject]_vars

----------------------------------------------------------------------------
(* Calls of inject_text one after the other, and the threads that          *)
(* _schedule_clipboard_clear started.                                      *)

MaxPastes == 2                      \* no further call once so many chords were pressed
MaxSleepers == 2                    \* no further call while so many threads are asleep

WipeTexts == {Word.say, Word.hello, <<" ">>}

(* clear_after_delay: time.sleep(delay) is over; _clear_clipboard sets the *)
(* clipboard to the empty text, or fails and a warning is printed          *)
ClearAfterDelay ==
  /\ clear_threads > 0
  /\ clear_threads' = clear_threads - 1
  /\ \/ clipboard' = <<>>
     \/ UNCHANGED clipboard
  /\ UNCHANGED <<text, word_overrides, ydotool_available, clipboard_behavior,
                 normalized, renormalized, inj_pc, processed_text, keystrokes,
                 inj_result>>
  /\ UNCHANGED <<oldVars, gsVars, wmVars, global_shortcuts>>

(* the next call of inject_text, after the last one returned *)
InjectAgain ==
  /\ inj_pc = "done"
  /\ keystrokes < MaxPastes
  /\ clear_threads < MaxSleepers
  /\ text' \in WipeTexts
  /\ inj_pc' = "idle"
  /\ processed_text' = None
  /\ inj_result' = "none"
  /\ UNCHANGED <<word_overrides, ydotool_available, clipboard_behavior,
                 normalized, renormalized, clipboard, keystrokes, clear_threads>>
  /\ UNCHANGED <<oldVars, gsVars, wmVars, global_shortcuts>>

InitWipe ==
  /\ is_recording = FALSE
  /\ is_processing = FALSE
  /\ current_transcription = <<>>
  /\ pc = [t \in Threads |-> "off"]
  /\ log = [t \in Threads |-> <<>>]
  /\ audio = [t \in Threads |-> None]
  /\ ac_is_recording = FALSE
  /\ audio_data = <<>>
  /\ record_thread = NoThread
  /\ cap = [s \in CaptureSlots |-> "none"]
  /\ armed = FALSE
  /\ delivered = <<>>
  /\ GsInit(DeviceIds)
  /\ WmInit(TRUE, None)
  /\ global_shortcuts = TRUE
  /\ \E t \in WipeTexts, ydotool \in BOOLEAN, behavior \in BOOLEAN :
        TiInit(t, <<>>, ydotool, behavior)

NextWipe ==
  InjCheck \/ InjCopy \/ InjPaste \/ InjSchedule \/ ClearAfterDelay \/ InjectAgain

SpecWipe == InitWipe /\ [][NextWipe]_vars

----------------------------------------------------------------------------
(* HyprWhsprApp.run and _cleanup on the main thread, with the watcher's    *)
(* listener, one trigger callback at a time and the recorder.              *)

mainVars == <<ctlVars, acVars, log, audio, tiVars, global_shortcuts>>
gsRest == <<pressed_keys, last_trigger_time, primary_key, target_keys, devices,
            device_fds, is_running, stop_event, listener_thread, lst, now>>
wmRest == <<wm_pc, wm_audio, wm_files, wm_made, wm_backend, wm_transcription,
            wm_result>>

(* if not self.whisper_manager.initialize(): return False. initialize     *)
(* sets ready and returns True, or finds no binary or no model, or raises, *)
(* and returns False                                                       *)
RunInitialize ==
  /\ pc[Client] = "run"
  /\ \/ wm_ready' = TRUE /\ Goto(Client, "run_watch")
     \/ UNCHANGED wm_ready /\ Goto(Client, "run_failed")
  /\ UNCHANGED <<mainVars, gsVars, wmRest>>

(* if self.global_shortcuts: self.global_shortcuts.start() *)
RunStartWatcher ==
  /\ pc[Client] = "run_watch"
  /\ IF global_shortcuts
       THEN gs_pc' = "start_chk" /\ Goto(Client, "gs_start")
       ELSE UNCHANGED gs_pc /\ Goto(Client, "main_loop")
  /\ UNCHANGED <<mainVars, gsRest, wmVars>>

(* A variant of RunWatcherReturned that gives up when start() failed. *)
RunWatcherReturned_Halts ==
  /\ pc[Client] = "gs_start"
  /\ gs_pc = "idle"
  /\ Goto(Client, IF is_running THEN "main_loop" ELSE "run_failed")
  /\ UNCHANGED <<mainVars, gsVars, wmVars>>

(* start() has returned, True or False: run() goes on to                   *)
(* while True: time.sleep(1)                                               *)
RunWatcherReturned ==
  /\ pc[Client] = "gs_start"
  /\ gs_pc = "idle"
  /\ Goto(Client, "main_loop")
  /\ UNCHANGED <<mainVars, gsVars, wmVars>>

(* except KeyboardInterrupt (or Exception): self._cleanup() *)
Interrupt ==
  /\ pc[Client] = "main_loop"
  /\ Goto(Client, "cleanup")
  /\ UNCHANGED <<mainVars, gsVars, wmVars>>

(* _cleanup: if self.global_shortcuts: self.global_shortcuts.stop() *)
CleanupStopWatcher ==
  /\ pc[Client] = "cleanup"
  /\ IF global_shortcuts
       THEN gs_pc' = "stop_chk" /\ Goto(Client, "gs_stop")
       ELSE UNCHANGED gs_pc /\ Goto(Client, "cleanup_rec")
  /\ UNCHANGED <<mainVars, gsRest, wmVars>>

(* stop() has returned; if self.is_recording:                              *)
(* self.audio_capture.stop_recording()                                     *)
CleanupStopRecorder ==
  /\ \/ pc[Client] = "gs_stop" /\ gs_pc = "idle"
     \/ pc[Client] = "cleanup_rec"
  /\ Goto(Client, IF is_recording THEN "ac_stop_chk" ELSE "cleanup_save")
  /\ UNCHANGED <<mainVars, gsVars, wmVars>>

(* self.config.save_config() returns, or raises and the exception is       *)
(* printed: _cleanup is over                                               *)
CleanupSave ==
  /\ pc[Client] \in {"cleanup_save", AfterStopNothing(Client), AfterStopReturned(Client)}
  /\ Goto(Client, "cleaned")
  /\ UNCHANGED <<mainVars, gsVars, wmVars>>

(* a chord can reach the listener: a listener thread reads an open device *)
WatcherListens == SomeListenerAlive /\ devices \cap device_fds # {}

(* the trigger callback: started by the listener, then on its own thread *)
RunHandler(t) ==
  /\ pc[t] = "off" => WatcherListens
  /\ Handler(t)

InitRun ==
  /\ is_recording = FALSE
  /\ is_processing = FALSE
  /\ current_transcription = <<>>
  /\ pc = [t \in Threads |-> IF t = Client THEN "run" ELSE "off"]
  /\ log = [t \in Threads |-> <<>>]
  /\ audio = [t \in Threads |-> None]
  /\ ac_is_recording = FALSE
  /\ audio_data = <<>>
  /\ record_thread = NoThread
  /\ cap = [s \in CaptureSlots |-> "none"]
  /\ armed = FALSE
  /\ delivered = <<>>
  /\ \E found \in SUBSET DeviceIds : GsInit(found)
  /\ WmInit(FALSE, None)
  /\ TiInit(<<>>, <<>>, TRUE, FALSE)
  /\ global_shortcuts \in BOOLEAN

MainThread ==
  \/ RunInitialize
  \/ RunStartWatcher
  \/ RunWatcherReturned
  \/ Interrupt
  \/ CleanupStopWatcher
  \/ CleanupStopRecorder
  \/ CleanupSave
  \/ GsStartCheck
  \/ GsStartDiscover
  \/ GsStartSpawn
  \/ GsStopCheck
  \/ GsStopJoin
  \/ GsStopClose
  \/ AcStopCheck(Client)
  \/ AcStopFlip(Client)
  \/ AcStopJoin(Client)
  \/ AcStopRead(Client)

NextRun ==
  \/ MainThread
  \/ \E s \in ListenerSlots : ListenerExit(s)
  \/ \E d \in DeviceIds : DeviceError(d)
  \/ RunHandler(Caller)
  \/ Recorder(Caller, 1..DaemonCapture)
  \/ Capture(DaemonVals, DaemonBlocks)

SpecRun == InitRun /\ [][NextRun]_vars

----------------------------------------------------------------------------
(* The claims about the transcription adapter. *)

WmOver == wm_pc \in {"done", "returned"}

(* C21: a buffer that is absent, has no samples or has fewer than 1600     *)
(* samples makes transcribe return "" with no temporary file created and   *)
(* no backend process run; a buffer of exactly 1600 samples (or more) gets *)
(* past the checks: it ends without a backend run only when writing the    *)
(* temporary file raised.                                                  *)
C21_ShortBufferReturnsEmpty ==
  WmOver =>
    IF wm_audio = None \/ (wm_audio # None /\ SampleCount(wm_audio) < 1600)
      THEN wm_result = <<>> /\ wm_backend = "not_run" /\ wm_made = {}
      ELSE wm_backend = "not_run" => wm_result = Raised

C21_Witness ==
  /\ wm_pc = "done"
  /\ wm_audio = Samples(1599)
  /\ wm_result = <<>> /\ wm_backend = "not_run" /\ wm_made = {}

(* C22: once transcribe has returned or raised, neither the temporary      *)
(* audio file nor the backend's text file of the call exists.              *)
C22_NoFileLeft == WmOver => wm_files = {}

(* C23: a backend that ran into the timeout or exited with a non-zero      *)
(* status makes transcribe return "", never raise; the callback then       *)
(* injects nothing, logs no exception, and ends with the controller Idle.  *)
C23_BackendFailedIsNoSpeech ==
  wm_backend \in {"timeout", "nonzero"} =>
    /\ wm_transcription # Raised
    /\ WmOver => wm_result = <<>>
    /\ pc[Caller] # "inject"
    /\ ~InLog(Caller, "inject") /\ ~InLog(Caller, "raised")
    /\ pc[Caller] = "done" => Seen = "Idle"

C23_Witness ==
  /\ wm_backend = "timeout"
  /\ wm_result = <<>>
  /\ pc[Caller] = "done"
  /\ InLog(Caller, "transcribed")
  /\ Seen = "Idle"

----------------------------------------------------------------------------
(* The claims about the normalizer. *)

(* the characters of a text, and whether a phrase stands in it as words *)
Chars(s) == {s[i] : i \in 1..Len(s)}
HasPhrase(s, phrase) == MatchesFrom(WholeWord(phrase), s, 1) # {}

(* C24: with no overrides configured, normalizing a normalized text gives  *)
(* the same text: normalize(normalize(x)) = normalize(x).                  *)
C24_Idempotent ==
  (word_overrides = <<>> /\ renormalized # None) => renormalized = normalized

(* C25: with no overrides configured, "open paren hello close paren" is    *)
(* normalized to "(hello)".                                                *)
C25_ParenExample ==
  (/\ word_overrides = <<>>
   /\ text = Join(<<Word.open_paren, Word.hello, Word.close_paren>>, <<" ">>)
   /\ normalized # None) =>
    normalized = <<"(">> \o Word.hello \o <<")">>

(* C26: with no overrides configured, "new line" between two ordinary      *)
(* words is replaced by a line feed: "say new line hello" is normalized to *)
(* "say", a line feed, "hello".                                            *)
C26_LineBreakRule ==
  \A a, b \in {Word.say, Word.hello} :
    (/\ word_overrides = <<>>
     /\ text = Join(<<a, Word.new_line, b>>, <<" ">>)
     /\ normalized # None) =>
      normalized = a \o <<"\n">> \o b

(* C27: with the override "period" -> "dot" configured, the built-in rule  *)
(* for "period" never sees the word: the normalized text holds no "." and  *)
(* holds "dot" wherever the text held "period"; "say period" is normalized *)
(* to "say dot".                                                           *)
C27_OverridesFirst ==
  (word_overrides = << <<Word.period, Dot>> >> /\ normalized # None) =>
    /\ "." \notin Chars(normalized)
    /\ HasPhrase(text, Word.period) => HasPhrase(normalized, Dot)
    /\ ~HasPhrase(normalized, Word.period)
    /\ text = Join(<<Word.say, Word.period>>, <<" ">>) => normalized = Join(<<Word.say, Dot>>, <<" ">>)

C27_Witness ==
  /\ word_overrides = << <<Word.period, Dot>> >>
  /\ text = Join(<<Word.say, Word.period>>, <<" ">>)
  /\ normalized = Join(<<Word.say, Dot>>, <<" ">>)

----------------------------------------------------------------------------
(* The claims about the injector. *)

Blank(s) == Chars(s) \subseteq {" ", "\t", "\n", "\r"}

(* C28: inject of an empty or whitespace-only text writes nothing to the   *)
(* clipboard, presses no paste chord, starts no clipboard-clearing thread, *)
(* and returns success.                                                    *)
C28_BlankTextNoAction ==
  Blank(text) =>
    /\ clipboard = None /\ keystrokes = 0 /\ clear_threads = 0
    /\ inj_result # "False"
    /\ inj_pc \in {"idle", "done"}
    /\ inj_pc = "done" => inj_result = "True"

C28_Witness ==
  /\ text = <<" ", "\n">>
  /\ clipboard_behavior
  /\ inj_pc = "done" /\ inj_result = "True"
  /\ clipboard = None /\ keystrokes = 0 /\ clear_threads = 0

(* C29: the text inject puts on the clipboard never ends with a line feed  *)
(* or a carriage return; inject("hello\n") puts "hello" there.             *)
C29_NoTrailingNewline ==
  clipboard # None =>
    /\ clipboard = <<>> \/ clipboard[Len(clipboard)] \notin {"\n", "\r"}
    /\ (text = Word.hello \o <<"\n">> /\ word_overrides = <<>>) => clipboard = Word.hello

C29_Witness ==
  /\ text = Word.hello \o <<"\n">>
  /\ clipboard = Word.hello
  /\ inj_pc = "done" /\ inj_result = "True"

----------------------------------------------------------------------------
(* The claims about the clipboard-clearing thread. *)

(* C31: with clipboard_behavior set, a call of inject_text that returns    *)
(* with its text on the clipboard has started a clipboard-clearing thread, *)
(* and returns while that thread is still asleep.                          *)
C31_WipeScheduled ==
  [][(/\ inj_pc # "done" /\ inj_pc' = "done"
      /\ clipboard_behavior
      /\ ~Blank(text)
      /\ clipboard' = processed_text)
     => clear_threads' = clear_threads + 1]_vars

(* C36: whenever the paste chord is pressed, the clipboard holds the       *)
(* processed text of the call that presses it.                             *)
C36_PasteSeesOwnText ==
  [][keystrokes' = keystrokes + 1 => clipboard = processed_text]_vars

----------------------------------------------------------------------------
(* The claims about startup and shutdown. *)

(* C32: run() gives up only when initialize() failed, and then the         *)
(* watcher was never started: no listener thread, no callback, no          *)
(* recording. With the adapter ready, run() reaches its main loop whether  *)
(* or not there is a watcher and whether or not its start() succeeded.     *)
C32_StartupHalts ==
  pc[Client] = "run_failed" =>
    /\ ~wm_ready
    /\ ~is_running /\ listener_thread = NoThread /\ ~SomeListenerAlive
    /\ \A t \in Handlers : pc[t] = "off"
    /\ ~is_recording /\ ~ac_is_recording

C32_Witness ==
  /\ pc[Client] = "run_failed"
  /\ global_shortcuts /\ devices # {}
  /\ ~wm_ready /\ ~is_running

(* C33: at the step that ends _cleanup, the watcher is not running, the    *)
(* devices of a watcher that had been started are released, and the        *)
(* recorder is not recording.                                              *)
C33_CleanedUp ==
  [][(pc[Client] # "cleaned" /\ pc'[Client] = "cleaned") =>
       /\ ~is_running'
       /\ listener_thread' # NoThread => (devices' = {} /\ device_fds' = {})
       /\ ~ac_is_recording']_vars

----------------------------------------------------------------------------
(* C34: at most one capture thread has a stream whose callback appends to  *)
(* the buffer.                                                             *)
C34_OneCaptureThread ==
  ac_is_recording => Cardinality({s \in CaptureSlots : cap[s] = "streaming"}) <= 1

(* C35: when the controller's is_recording is set and no callback is in    *)
(* progress, the recorder is recording.                                    *)
C35_FlagMeansRecording ==
  (is_recording /\ \A t \in Handlers : pc[t] \in {"off", "done"}) => ac_is_recording

(* C37: a callback injects the transcription of its own buffer: while it   *)
(* is about to call _inject_text(self.current_transcription), no other     *)
(* callback changes current_transcription.                                 *)
C37_InjectsOwnText ==
  [][\A t \in Handlers :
       (pc[t] = "inject" /\ pc'[t] = "inject") =>
         current_transcription' = current_transcription]_vars

----------------------------------------------------------------------------
(* C38: pressed_keys holds only keys held down on a device of the active   *)
(* set, so with no device left in the set it holds no key.                 *)
C38_NoDeviceNoKey ==
  devices = {} => pressed_keys = {}

(* C39: at most one listener thread of the watcher is alive.               *)
C39_OneListener ==
  Cardinality({s \in ListenerSlots : lst[s] = "alive"}) <= 1

----------------------------------------------------------------------------
(* C40: a normalized text neither starts nor ends with whitespace, holds   *)
(* no two blanks in a row, no space next to a line feed, and no tab.       *)
C40_TidyOutput ==
  normalized # None =>
    /\ normalized = <<>>
         \/ (normalized[1] \notin WS /\ normalized[Len(normalized)] \notin WS)
    /\ \A i \in 1..(Len(normalized) - 1) :
         /\ ~(normalized[i] \in {" ", "\t"} /\ normalized[i + 1] \in {" ", "\t"})
         /\ ~(normalized[i] = " " /\ normalized[i + 1] = "\n")
         /\ ~(normalized[i] = "\n" /\ normalized[i + 1] = " ")
    /\ "\t" \notin Chars(normalized)

C40_Witness ==
  /\ text = Join(<<Word.hello, Word.tab, Word.say>>, <<" ">>)
  /\ word_overrides = <<>>
  /\ normalized = Join(<<Word.hello, Word.say>>, <<" ">>)

====
